---- MODULE Spec2Model ----
(***************************************************************************)
(* Incremental IMAP ingestion of the invoicer: the watermark-driven        *)
(* fetcher (GmailSource.fetch), the worker that cuts a fetched batch into  *)
(* chunks (process_source_folder) and the chunk transaction that stores    *)
(* the invoices and widens the watermarks of one source_folder row         *)
(* (process_chunk, DatabaseClient).                                        *)
(***************************************************************************)
EXTENDS Integers, Sequences, FiniteSets, TLC

\* ------------------------------------------------------------------ bounds
MaxUid == 3            \* UIDs of the remote folder are 1..MaxUid
MaxBatch == 3          \* batch_size is drawn from 0..MaxBatch
MaxChunk == 2          \* chunk_size is drawn from 1..MaxChunk
MaxRuns == 2           \* worker runs per behaviour
MaxFetchFail == 1      \* individual FETCH failures per fetch
MaxInvoiceNumber == 1  \* extracted invoice numbers are None or 1..MaxInvoiceNumber

\* None of an Optional[int] column or field
NULL == -1

NumWorkers == 2        \* worker slots: invocations that can run at a time
NumSources == 2        \* rows of the source table are 1..NumSources
MaxListing == 2        \* folders a LIST answer names
MaxEpoch == 2          \* UIDVALIDITY values of a folder are 1..MaxEpoch
NumSchedulers == 2     \* scheduler runs, which may overlap in time
MaxAttachments == 2    \* attachments of a message
MaxTime == 2           \* latest time of the clock and of a stored expiry
NumFolders == 2        \* rows of the source_folder table that workers run on
MaxMail == 4           \* UIDs of the folders of the runs that follow one another are 1..MaxMail
Workers == 1..NumWorkers
Uids == 1..MaxUid
Sources == 1..NumSources
Schedulers == 1..NumSchedulers
FolderNames == {"INBOX", "Sent"}

VARIABLES
    mailbox,            \* UIDs present in the remote folder
    uidnext,            \* next UID the server assigns
    source_folder,      \* committed source_folder row of the worker's folder
    invoice,            \* committed rows of the invoice table
    batch_size,         \* scheduler(batch_size=...)
    chunk_size,         \* scheduler(chunk_size=...)
    single_flight,      \* TRUE: at most one worker runs on the row at a time
    runs,               \* worker runs started so far
    pc,                 \* position of each worker
    folder,             \* process_source_folder: folder read at start of the run
    email_messages,     \* process_source_folder: UIDs returned by gmail.fetch
    imap,               \* GmailSource: TRUE while _imap holds a connection
    chunk_num,          \* process_source_folder: number of the current chunk
    chunks_processed,   \* process_source_folder: len(all_metrics)
    total_errors,       \* process_source_folder: total_errors
    total_invoices,     \* process_source_folder: total_invoices
    total_non_invoices, \* process_source_folder: total_non_invoices
    invoices_to_insert, \* process_chunk: invoices extracted from the chunk
    errors,             \* process_chunk: UIDs with a per-message error
    non_invoices,       \* process_chunk: non_invoices
    upload_failed,      \* history: an attachment upload raised in the chunk
    tx_folder,          \* process_chunk: folder read inside the transaction
    txn,                \* uncommitted writes of each worker's connection
    chunk_start,        \* history: committed rows at the chunk's start
    chunk_result,       \* history: how the latest chunk ended: "ok", or the
                        \* way its transaction raised
    committed_uids,     \* history: UIDs attempted in a committed chunk
    failed_uids,        \* history: UIDs of the chunks that failed in the latest run
    fetch_skipped,      \* history: UIDs whose FETCH failed in the fetch just made
    disturbed,          \* history: mail arrived, or a FETCH, a search or a
                        \* chunk failed, since the start
    source,             \* ids of the rows of the source table
    stored,             \* per source: the OAuth columns of its row
    clock,              \* datetime.now(timezone.utc)
    remote_folders,     \* per source: the folder names its LIST answer holds
    uid_validity,       \* per source and folder name: the folder's UIDVALIDITY
    source_folder_rows, \* rows of the source_folder table (committed)
    source_folder_seq,  \* next id of the source_folder table
    spc,                \* position of each scheduler run
    source_tokens,      \* scheduler: ids of the sources with a token
    source_i,           \* scheduler: index in sources of the source in reconciliation
    folder_infos,       \* reconcile_folders: gmail.list_folders()
    info_i,             \* reconcile_folders: index of the current folder_info
    reconciled_ids,     \* reconcile_folders: ids collected so far
    all_folder_ids,     \* scheduler: ids of all reconciled source_folders
    worker_calls,       \* scheduler: the source_folder id of each spawned worker
    results,            \* scheduler: one result per awaited worker
    summary,            \* scheduler: the dict the run returns
    refresh_i,          \* scheduler: sources the refresh loop has gone through
    spawn_i,            \* scheduler: ids the spawn loop has gone through
    token,              \* scheduler: what refresh_source_token returned last
    exchanged,          \* history: the latest refresh_source_token call asked
                        \* the token endpoint for a new token
    reconciled,         \* history: the sources the run called
                        \* reconcile_folders for
    created,            \* history: ids of the records the reconcile_folders
                        \* call under way has created
    prior,              \* history: last_call of the source as it was when the
                        \* reconcile_folders call under way listed the folders
    last_call,          \* history: per source, the folder_infos and the result
                        \* of the latest reconcile_folders call that returned
    mail,               \* process_chunk: the messages of the chunk, as parsed
    bucket,             \* keys of the objects in the attachment bucket
    invoice_rows,       \* committed invoice rows of the chunk's messages
    attempts,           \* process_chunk calls made on the chunk
    lpc,                \* position in process_chunk
    email_i,            \* process_chunk: index of the current message
    attachment_i,       \* process_chunk: index of the current attachment
    attached_files,     \* process_chunk: attached_files of the current message
    to_insert,          \* process_chunk: invoices_to_insert
    failed,             \* process_chunk: UIDs in errors
    folder_rows,        \* committed watermarks of the source_folder rows, by id
    folder_of,          \* source_folder_id the worker was called with
    messages,           \* process_source_folder: email_messages of the worker
    chunk_i,            \* process_source_folder: chunk_num of the worker
    fpc,                \* position of the worker in its chunk transaction
    row_read,           \* process_chunk: folder, the row the SELECT returned
    row_write,          \* the worker's UPDATE of its row, not yet committed
    processed,          \* history: UIDs of the chunks the worker committed
    skipped,            \* history: UIDs whose FETCH failed in the worker's fetch
    rows_before         \* history: folder_rows before the workers started

envVars == <<mailbox, uidnext>>
cfgVars == <<batch_size, chunk_size, single_flight>>
dbVars == <<source_folder, invoice>>
runVars == <<folder, email_messages, imap, chunks_processed, total_errors,
             total_invoices, total_non_invoices>>
chunkVars == <<invoices_to_insert, errors, non_invoices, upload_failed, tx_folder,
               chunk_start>>
histVars == <<chunk_result, committed_uids, failed_uids, fetch_skipped,
              disturbed>>

workerVars == <<envVars, cfgVars, dbVars, runVars, chunkVars, histVars, runs, pc,
                chunk_num, txn>>
remoteVars == <<remote_folders, uid_validity>>
tableVars == <<source, source_folder_rows, source_folder_seq>>
reconcileVars == <<folder_infos, info_i, reconciled_ids>>
schedulerVars == <<source_tokens, source_i, all_folder_ids, worker_calls, results,
                   summary>>
schedHistVars == <<created, prior, last_call>>
accountVars == <<stored, clock>>
stepVars == <<refresh_i, spawn_i, token, exchanged, reconciled>>
schedVars == <<remoteVars, tableVars, accountVars, spc, reconcileVars,
               schedulerVars, stepVars, schedHistVars>>
loopVars == <<mail, bucket, invoice_rows, attempts, lpc, email_i, attachment_i,
              attached_files, to_insert, failed>>
folderVars == <<folder_rows, folder_of, messages, chunk_i, fpc, row_read, row_write,
                processed, skipped, rows_before>>
vars == <<workerVars, schedVars, loopVars, folderVars>>

\* ----------------------------------------------------------------- helpers
Max(S) == CHOOSE x \in S : \A y \in S : y <= x
Min(S) == CHOOSE x \in S : \A y \in S : x <= y
Range(s) == {s[i] : i \in 1..Len(s)}

RECURSIVE Ascending(_)
Ascending(S) == IF S = {} THEN <<>> ELSE <<Min(S)>> \o Ascending(S \ {Min(S)})

RECURSIVE Insert(_, _)
Insert(s, x) ==
    IF s = <<>> THEN <<x>>
    ELSE IF x <= Head(s) THEN <<x>> \o s
    ELSE <<Head(s)>> \o Insert(Tail(s), x)

\* list.sort()
RECURSIVE sort(_)
sort(s) == IF s = <<>> THEN <<>> ELSE Insert(sort(Tail(s)), Head(s))

\* s[-n:] of Python for 0 <= n <= len(s): s[-0:] is s[0:], the whole list
SliceLast(s, n) == IF n = 0 THEN s ELSE SubSeq(s, Len(s) - n + 1, Len(s))

\* s[:n] of Python for 0 <= n
SliceFirst(s, n) == SubSeq(s, 1, IF n < Len(s) THEN n ELSE Len(s))

\* s[i:i+n] of Python, i counted from 0
Slice(s, i, n) == SubSeq(s, i + 1, IF i + n < Len(s) THEN i + n ELSE Len(s))

\* --------------------------------------------------------- the IMAP server
\* UID SEARCH ALL: the UIDs of the folder, ascending
uid_search_all(mb) == Ascending(mb)

\* UID SEARCH UID a:b with numbers a, b >= 1.  A sequence range names the
\* numbers between its two ends whatever their order (RFC 3501, seq-range).
uid_search_range(mb, a, b) ==
    LET lo == IF a <= b THEN a ELSE b
        hi == IF a <= b THEN b ELSE a
    IN  Ascending({u \in mb : lo <= u /\ u <= hi})

\* UID SEARCH UID a:* where * is the largest UID in use: the range always
\* holds the last message of a non-empty folder, also when a is beyond it.
uid_search_from(mb, a) ==
    IF mb = {} THEN <<>> ELSE uid_search_range(mb, a, Max(mb))

\* ------------------------------------------------------- GmailSource.fetch
\* The UIDs selected for FETCH (uids_to_fetch).
uids_to_fetch(mb, high_water_mark, low_water_mark, limit) ==
    IF high_water_mark = NULL /\ low_water_mark = NULL
    THEN LET all_uids == uid_search_all(mb)
         IN  IF Len(all_uids) > limit THEN SliceLast(all_uids, limit) ELSE all_uids
    ELSE LET new_uids == IF high_water_mark # NULL
                         THEN uid_search_from(mb, high_water_mark + 1)
                         ELSE <<>>
             historical_uids == IF low_water_mark # NULL /\ low_water_mark - 1 >= 1
                                THEN uid_search_range(mb, 1, low_water_mark - 1)
                                ELSE <<>>
             combined == new_uids \o sort(historical_uids)
         IN  IF Len(combined) > limit THEN SliceFirst(combined, limit) ELSE combined

\* The messages returned: a UID whose FETCH fails is skipped.
fetch(mb, high_water_mark, low_water_mark, limit, bad) ==
    SelectSeq(uids_to_fetch(mb, high_water_mark, low_water_mark, limit),
              LAMBDA u : u \notin bad)

\* What imaplib makes of a FETCH that fails on the server: a "NO" answer (or
\* one without data) comes back as the status, which fetch tests; a "BAD"
\* answer or a broken connection raises IMAP4.error / IMAP4.abort out of
\* self._imap.uid, which fetch calls outside any try block.
FetchReplies == {"NO", "BAD"}

\* The historical search is "UID 1:0" when low_water_mark is 1; 0 is no
\* sequence number, so the server may answer BAD (imaplib raises) or NO.
HistoricalSearchInvalid(low_water_mark) ==
    low_water_mark # NULL /\ low_water_mark - 1 < 1

\* ---------------------------------------------------------- DatabaseClient
EmptyTxn == [rows |-> {}, updated |-> FALSE,
             folder |-> [high_water_mark |-> NULL, low_water_mark |-> NULL,
                         last_processed_at |-> NULL]]

\* rows a connection sees: the committed ones and its own uncommitted ones
VisibleInvoices(w) == invoice \cup txn[w].rows

\* get_source_folder_by_id on a worker's connection
get_source_folder_by_id(w) ==
    IF txn[w].updated THEN txn[w].folder ELSE source_folder

\* the row an INSERT stores for an invoice: its columns, and the number of
\* the row among the rows of the same message and invoice_number (the rows
\* differ in their id)
stored_row(inv, n) ==
    [column \in DOMAIN inv \cup {"copy"} |->
        IF column = "copy" THEN n ELSE inv[column]]

\* (variant: a plain INSERT, without ON CONFLICT (invoice_number) DO NOTHING)
RECURSIVE insert_invoices_plain(_, _, _)
insert_invoices_plain(seen, staged, invs) ==
    IF invs = <<>> THEN staged
    ELSE LET inv == Head(invs)
             same == {r \in seen \cup staged :
                         r.uid = inv.uid /\ r.invoice_number = inv.invoice_number}
             row == stored_row(inv, Cardinality(same) + 1)
         IN  insert_invoices_plain(seen, staged \cup {row}, Tail(invs))

\* INSERT ... ON CONFLICT (invoice_number) DO NOTHING, one row after the other;
\* a NULL invoice_number conflicts with nothing
RECURSIVE insert_invoices(_, _, _)
insert_invoices(seen, staged, invs) ==
    IF invs = <<>> THEN staged
    ELSE LET inv == Head(invs)
             conflict == /\ inv.invoice_number # NULL
                         /\ \E r \in seen \cup staged :
                                r.invoice_number = inv.invoice_number
             same == {r \in seen \cup staged :
                         r.uid = inv.uid /\ r.invoice_number = inv.invoice_number}
             row == stored_row(inv, Cardinality(same) + 1)
         IN  insert_invoices(seen, IF conflict THEN staged ELSE staged \cup {row},
                             Tail(invs))

\* (variant: the two watermark columns are set the wrong way round)
update_source_folder_watermarks_swapped(high_water_mark, low_water_mark, t) ==
    [high_water_mark |-> low_water_mark, low_water_mark |-> high_water_mark,
     last_processed_at |-> t]

\* UPDATE source_folder SET high_water_mark, low_water_mark, last_processed_at
update_source_folder_watermarks(high_water_mark, low_water_mark, t) ==
    [high_water_mark |-> high_water_mark, low_water_mark |-> low_water_mark,
     last_processed_at |-> t]

\* conn.commit(): the uncommitted writes become the committed rows
commit(committed, pending) ==
    [invoice |-> committed.invoice \cup pending.rows,
     source_folder |-> IF pending.updated THEN pending.folder
                       ELSE committed.source_folder]

\* (variant: a connection in autocommit mode, whose writes a rollback cannot undo)
rollback_autocommit(committed, pending) == commit(committed, pending)

\* conn.rollback(): the committed rows stay, the uncommitted writes are dropped
rollback(committed, pending) == committed

Committed == [invoice |-> invoice, source_folder |-> source_folder]

ChunkStart == [committed |-> Committed]

\* ------------------------------------------------------------ process_chunk
\* the watermarks process_chunk writes for a chunk with the given UIDs
\* (variant: the chunk's largest UID is written without looking at the stored one)
new_high_overwrite(f, uids) == Max(uids)

new_high(f, processed_uids) ==
    IF f.high_water_mark = NULL \/ Max(processed_uids) > f.high_water_mark
    THEN Max(processed_uids) ELSE f.high_water_mark

\* (variant: a stored low_water_mark is never lowered)
new_low_keep(f, uids) ==
    IF f.low_water_mark = NULL THEN Min(uids) ELSE f.low_water_mark

new_low(f, processed_uids) ==
    IF f.low_water_mark = NULL \/ Min(processed_uids) < f.low_water_mark
    THEN Min(processed_uids) ELSE f.low_water_mark

\* ----------------------------------------------------- process_source_folder
\* (variant: the chunks are taken from the end of the list)
chunk_backwards(msgs, k, size) ==
    Slice(msgs, (((Len(msgs) + size - 1) \div size) - k) * size, size)

\* chunks[k] for k = 1, 2, ...: email_messages[i:i + chunk_size], i = (k-1)*chunk_size
chunk(msgs, k, size) == Slice(msgs, (k - 1) * size, size)

num_chunks(msgs, size) == (Len(msgs) + size - 1) \div size

emails(w) == chunk(email_messages[w], chunk_num[w], chunk_size)

\* (variant: only the UIDs that became invoices count as processed)
processed_uids_invoices(w) ==
    {invoices_to_insert[w][i].uid : i \in 1..Len(invoices_to_insert[w])}

\* process_chunk: processed_uids, the UIDs of all messages of the chunk
processed_uids(w) == Range(emails(w))

\* What the classification / extraction engine reads in a message, a black
\* box that maps a parsed email to an answer: of four consecutive messages
\* the first and the third are invoices with the same invoice number, the
\* second is no invoice and the fourth is an invoice without a number.
engine(uid) ==
    IF uid % 4 = 2 THEN [kind |-> "non_invoice", invoice_number |-> NULL]
    ELSE IF uid % 4 = 0 THEN [kind |-> "invoice", invoice_number |-> NULL]
    ELSE [kind |-> "invoice", invoice_number |-> ((uid \div 4) % MaxInvoiceNumber) + 1]

\* what the loop body of process_chunk makes of one message in one attempt:
\* the engine's answer; "error", an exception of parse, classify or extract
\* (or an extraction that returned None); "upload_failed", an exception of
\* object_exists or upload_attachment for an attachment of an invoice
Outcomes(uid) ==
    {engine(uid), [kind |-> "error", invoice_number |-> NULL]}
    \cup (IF engine(uid).kind = "invoice"
          THEN {[kind |-> "upload_failed", invoice_number |-> NULL]} ELSE {})

\* the kinds of outcome the handler of the message loop (except Exception)
\* catches: the re-raise of the attachment handler is inside its try block
CaughtKinds == {"error", "upload_failed"}

\* process_chunk: errors after the loop, given the outcome of each message
chunk_errors(es, outcome) ==
    {es[i] : i \in {j \in 1..Len(es) : outcome[j].kind \in CaughtKinds}}

\* process_chunk: non_invoices after the loop
chunk_non_invoices(es, outcome) ==
    Cardinality({j \in 1..Len(es) : outcome[j].kind = "non_invoice"})

\* (variant: the loop ends at the first message that fails)
chunk_invoices_break(es, outcome) ==
    LET stop == {j \in 1..Len(es) : outcome[j].kind \in CaughtKinds}
        n == IF stop = {} THEN Len(es) ELSE Min(stop) - 1
        all == [i \in 1..n |->
                   [uid |-> es[i], kind |-> outcome[i].kind,
                    invoice_number |-> outcome[i].invoice_number]]
        found == SelectSeq(all, LAMBDA r : r.kind = "invoice")
    IN  [i \in 1..Len(found) |->
            [uid |-> found[i].uid, invoice_number |-> found[i].invoice_number]]

\* process_chunk: invoices_to_insert after the loop
chunk_invoices(es, outcome) ==
    LET all == [i \in 1..Len(es) |->
                   [uid |-> es[i], kind |-> outcome[i].kind,
                    invoice_number |-> outcome[i].invoice_number]]
        found == SelectSeq(all, LAMBDA r : r.kind = "invoice")
    IN  [i \in 1..Len(found) |->
            [uid |-> found[i].uid, invoice_number |-> found[i].invoice_number]]

\* ---------------------------------------------------------------- the state
\* a source_folder that was never processed: create_source_folder
NoFolder == [high_water_mark |-> NULL, low_water_mark |-> NULL,
             last_processed_at |-> NULL]

\* chunk_start outside a chunk
NoChunk == [committed |-> [invoice |-> {}, source_folder |-> NoFolder]]

\* a scheduler run that has returned nothing
NoSummary == [kind |-> "none"]

\* last_call of a source for which no reconcile_folders call has returned
NoCall == [made |-> FALSE, folder_infos |-> <<>>, folder_ids |-> <<>>]

\* no worker runs on a row of the source_folder table
FoldersIdle ==
    /\ folder_rows = [id \in {} |-> NoFolder]
    /\ folder_of = [w \in Workers |-> 0]
    /\ messages = [w \in Workers |-> <<>>]
    /\ chunk_i = [w \in Workers |-> 0]
    /\ fpc = [w \in Workers |-> "idle"]
    /\ row_read = [w \in Workers |-> NoFolder]
    /\ row_write = [w \in Workers |-> NoFolder]
    /\ processed = [w \in Workers |-> {}]
    /\ skipped = [w \in Workers |-> {}]
    /\ rows_before = [id \in {} |-> NoFolder]

\* no message loop is followed step by step
LoopIdle ==
    /\ mail = <<>>
    /\ bucket = {}
    /\ invoice_rows = {}
    /\ attempts = 0
    /\ lpc = "idle"
    /\ email_i = 0
    /\ attachment_i = 0
    /\ attached_files = <<>>
    /\ to_insert = <<>>
    /\ failed = {}

\* refresh_source_token returned None, or an empty token
NoToken == ""

\* the OAuth columns of a source that was connected and whose row holds no
\* expiry of the access token
NoExpiry == [oauth2_access_token |-> "stored", oauth2_refresh_token |-> "refresh",
             oauth2_access_token_expires_at |-> NULL]

\* the locals of the scheduler's loops before a run
StepsIdle ==
    /\ refresh_i = [s \in Schedulers |-> 0]
    /\ spawn_i = [s \in Schedulers |-> 0]
    /\ token = [s \in Schedulers |-> NoToken]
    /\ exchanged = [s \in Schedulers |-> FALSE]
    /\ reconciled = [s \in Schedulers |-> {}]

\* no scheduler run: the state of the scheduler where only workers are followed
SchedulersIdle ==
    /\ StepsIdle
    /\ stored = [src \in Sources |-> NoExpiry]
    /\ clock = 0
    /\ source = {}
    /\ remote_folders = [src \in Sources |-> <<>>]
    /\ uid_validity = [src \in Sources |-> [n \in FolderNames |-> 1]]
    /\ source_folder_rows = {}
    /\ source_folder_seq = 1
    /\ spc = [s \in Schedulers |-> "idle"]
    /\ source_tokens = [s \in Schedulers |-> {}]
    /\ source_i = [s \in Schedulers |-> 0]
    /\ folder_infos = [s \in Schedulers |-> <<>>]
    /\ info_i = [s \in Schedulers |-> 0]
    /\ reconciled_ids = [s \in Schedulers |-> <<>>]
    /\ all_folder_ids = [s \in Schedulers |-> <<>>]
    /\ worker_calls = [s \in Schedulers |-> <<>>]
    /\ results = [s \in Schedulers |-> <<>>]
    /\ summary = [s \in Schedulers |-> NoSummary]
    /\ created = [s \in Schedulers |-> {}]
    /\ prior = [s \in Schedulers |-> NoCall]
    /\ last_call = [src \in Sources |-> NoCall]

Init ==
    /\ SchedulersIdle
    /\ LoopIdle
    /\ FoldersIdle
    /\ mailbox \in SUBSET Uids
    /\ uidnext = IF mailbox = {} THEN 1 ELSE Max(mailbox) + 1
    /\ source_folder = NoFolder
    /\ invoice = {}
    /\ batch_size \in 0..MaxBatch
    /\ chunk_size \in 1..MaxChunk
    /\ single_flight = TRUE
    /\ runs = 0
    /\ pc = [w \in Workers |-> "idle"]
    /\ folder = [w \in Workers |-> NoFolder]
    /\ email_messages = [w \in Workers |-> <<>>]
    /\ imap = [w \in Workers |-> FALSE]
    /\ chunk_num = [w \in Workers |-> 0]
    /\ chunks_processed = [w \in Workers |-> 0]
    /\ total_errors = [w \in Workers |-> 0]
    /\ total_invoices = [w \in Workers |-> 0]
    /\ total_non_invoices = [w \in Workers |-> 0]
    /\ invoices_to_insert = [w \in Workers |-> <<>>]
    /\ errors = [w \in Workers |-> {}]
    /\ non_invoices = [w \in Workers |-> 0]
    /\ upload_failed = [w \in Workers |-> FALSE]
    /\ tx_folder = [w \in Workers |-> NoFolder]
    /\ txn = [w \in Workers |-> EmptyTxn]
    /\ chunk_start = [w \in Workers |-> NoChunk]
    /\ chunk_result = [w \in Workers |-> "none"]
    /\ committed_uids = {}
    /\ failed_uids = {}
    /\ fetch_skipped = {}
    /\ disturbed = FALSE

\* datetime.now() as worker w reads it in a chunk: later runs and later
\* chunks read later times
now(w) == runs * (MaxBatch + 1) + chunk_num[w]

Resting(w) == pc[w] \in {"idle", "done", "failed"}

\* the statements of the chunk transaction, in order
TxStatements == {"tx_insert", "tx_get_folder", "tx_update", "tx_commit"}

\* the ways the chunk transaction raises: at one of its statements, or at
\* the commit at its exit
ChunkFailures == {"statement_raised", "commit_raised"}

\* GmailSource._connect: a connection is opened unless one is held
connect(held) == TRUE

\* GmailSource.close: the connection held, if any, is closed and dropped
close(held) == FALSE

\* new mail: the server assigns the next UID
Arrive ==
    /\ UNCHANGED <<schedVars, loopVars, folderVars>>
    /\ uidnext <= MaxUid
    /\ mailbox' = mailbox \cup {uidnext}
    /\ uidnext' = uidnext + 1
    /\ disturbed' = TRUE
    /\ UNCHANGED <<cfgVars, dbVars, runVars, chunkVars, runs, pc, chunk_num,
                   txn, chunk_result, committed_uids, failed_uids,
                   fetch_skipped>>

\* process_source_folder up to the return of gmail.fetch
Fetch(w) ==
    /\ UNCHANGED <<schedVars, loopVars, folderVars>>
    /\ Resting(w)
    /\ runs < MaxRuns
    /\ \A v \in 1..(w - 1) : ~Resting(v)      \* a run takes the first free slot
    /\ single_flight => \A v \in Workers \ {w} : Resting(v)
    /\ \E reply \in {"BAD", "NO"} :
        LET f == source_folder
            selected == uids_to_fetch(mailbox, f.high_water_mark,
                                      f.low_water_mark, batch_size)
            search_raises == HistoricalSearchInvalid(f.low_water_mark)
                             /\ reply = "BAD"
        IN  \E bad \in SUBSET Range(selected), fetch_reply \in FetchReplies :
              /\ Cardinality(bad) <= MaxFetchFail
              /\ IF search_raises \/ (bad # {} /\ fetch_reply = "BAD")
                 THEN \* the search or a FETCH raises: gmail.close() and re-raise
                      /\ pc' = [pc EXCEPT ![w] = "failed"]
                      /\ imap' = [imap EXCEPT ![w] = close(connect(imap[w]))]
                      /\ UNCHANGED <<folder, email_messages>>
                      /\ fetch_skipped' = IF search_raises THEN {} ELSE bad
                      /\ disturbed' = TRUE
                 ELSE /\ pc' = [pc EXCEPT ![w] = "fetched"]
                      /\ imap' = [imap EXCEPT ![w] = connect(imap[w])]
                      /\ folder' = [folder EXCEPT ![w] = f]
                      /\ email_messages' = [email_messages EXCEPT ![w] =
                            fetch(mailbox, f.high_water_mark, f.low_water_mark,
                                  batch_size, bad)]
                      /\ fetch_skipped' = bad
                      /\ disturbed' = (disturbed \/ bad # {})
    /\ runs' = runs + 1
    /\ failed_uids' = {}
    /\ UNCHANGED <<envVars, cfgVars, dbVars, chunkVars, txn, chunk_num,
                   chunks_processed, total_errors, total_invoices,
                   total_non_invoices, chunk_result, committed_uids>>

\* process_source_folder: the early return, or the division into chunks
DivideIntoChunks(w) ==
    /\ UNCHANGED <<schedVars, loopVars, folderVars>>
    /\ pc[w] = "fetched"
    /\ IF email_messages[w] = <<>>
       THEN /\ pc' = [pc EXCEPT ![w] = "return"]
            /\ UNCHANGED chunk_num
       ELSE /\ pc' = [pc EXCEPT ![w] = "process_chunk"]
            /\ chunk_num' = [chunk_num EXCEPT ![w] = 1]
    /\ fetch_skipped' = {}
    /\ UNCHANGED <<envVars, cfgVars, dbVars, runVars, chunkVars, runs, txn,
                   chunk_result, committed_uids, failed_uids, disturbed>>

\* process_chunk: the loop over the chunk's messages.  An exception of parse,
\* classify, extract or of the attachment upload is caught by the loop's
\* handler: the UID goes to errors and the loop goes on.
ProcessEmails(w) ==
    /\ UNCHANGED <<schedVars, loopVars, folderVars>>
    /\ pc[w] = "process_chunk"
    /\ \E outcome \in [1..Len(emails(w)) -> UNION {Outcomes(u) : u \in Uids}] :
        LET es == emails(w)
        IN  /\ \A i \in 1..Len(es) : outcome[i] \in Outcomes(es[i])
            /\ invoices_to_insert' = [invoices_to_insert EXCEPT ![w] =
                  chunk_invoices(es, outcome)]
            /\ errors' = [errors EXCEPT ![w] = chunk_errors(es, outcome)]
            /\ non_invoices' = [non_invoices EXCEPT ![w] =
                  chunk_non_invoices(es, outcome)]
            /\ upload_failed' = [upload_failed EXCEPT ![w] =
                  \E i \in 1..Len(es) : outcome[i].kind = "upload_failed"]
    /\ chunk_start' = [chunk_start EXCEPT ![w] = ChunkStart]
    /\ chunk_result' = [chunk_result EXCEPT ![w] = "none"]
    /\ pc' = [pc EXCEPT ![w] = "tx_insert"]
    /\ UNCHANGED <<envVars, cfgVars, dbVars, runVars, tx_folder, runs,
                   chunk_num, txn, committed_uids, failed_uids, fetch_skipped,
                   disturbed>>

\* with db.transaction(): db.insert_invoices(invoices_to_insert)
TxInsertInvoices(w) ==
    /\ UNCHANGED <<schedVars, loopVars, folderVars>>
    /\ pc[w] = "tx_insert"
    /\ txn' = [txn EXCEPT ![w].rows =
                  IF invoices_to_insert[w] # <<>>
                  THEN insert_invoices(invoice, txn[w].rows, invoices_to_insert[w])
                  ELSE txn[w].rows]
    /\ pc' = [pc EXCEPT ![w] = "tx_get_folder"]
    /\ UNCHANGED <<envVars, cfgVars, dbVars, runVars, chunkVars, histVars,
                   runs, chunk_num>>

\* folder = db.get_source_folder_by_id(source_folder_id)
TxGetFolder(w) ==
    /\ UNCHANGED <<schedVars, loopVars, folderVars>>
    /\ pc[w] = "tx_get_folder"
    /\ tx_folder' = [tx_folder EXCEPT ![w] = get_source_folder_by_id(w)]
    /\ pc' = [pc EXCEPT ![w] = "tx_update"]
    /\ UNCHANGED <<envVars, cfgVars, dbVars, runVars, invoices_to_insert, errors,
                   non_invoices, upload_failed, chunk_start, histVars, runs,
                   chunk_num, txn>>

\* high / low from the chunk's UIDs, then db.update_source_folder_watermarks
TxUpdateWatermarks(w) ==
    /\ UNCHANGED <<schedVars, loopVars, folderVars>>
    /\ pc[w] = "tx_update"
    /\ IF processed_uids(w) # {}
       THEN LET high == new_high(tx_folder[w], processed_uids(w))
                low == new_low(tx_folder[w], processed_uids(w))
            IN  /\ txn' = [txn EXCEPT ![w].updated = TRUE,
                                      ![w].folder =
                                          update_source_folder_watermarks(
                                              high, low, now(w))]
       ELSE UNCHANGED txn
    /\ pc' = [pc EXCEPT ![w] = "tx_commit"]
    /\ UNCHANGED <<envVars, cfgVars, dbVars, runVars, chunkVars, histVars,
                   runs, chunk_num>>

\* (variant: the run ends at the first chunk that ends, as if the handler of
\* the chunk loop re-raised)
NextChunk_abort(w) ==
    /\ UNCHANGED chunk_num
    /\ imap' = [imap EXCEPT ![w] = close(imap[w])]
    /\ pc' = [pc EXCEPT ![w] = "return"]

\* process_source_folder: on to the next chunk, or gmail.close() and on to
\* the return
NextChunk(w) ==
    IF chunk_num[w] < num_chunks(email_messages[w], chunk_size)
    THEN /\ chunk_num' = [chunk_num EXCEPT ![w] = chunk_num[w] + 1]
         /\ pc' = [pc EXCEPT ![w] = "process_chunk"]
         /\ UNCHANGED imap
    ELSE /\ UNCHANGED chunk_num
         /\ imap' = [imap EXCEPT ![w] = close(imap[w])]
         /\ pc' = [pc EXCEPT ![w] = "return"]

\* conn.commit() at the exit of the transaction; process_chunk returns its
\* metrics and the folder it read is gone
TxCommit(w) ==
    /\ UNCHANGED <<schedVars, loopVars, folderVars>>
    /\ pc[w] = "tx_commit"
    /\ LET c == commit(Committed, txn[w])
       IN  /\ invoice' = c.invoice
           /\ source_folder' = c.source_folder
    /\ txn' = [txn EXCEPT ![w] = EmptyTxn]
    /\ chunks_processed' = [chunks_processed EXCEPT ![w] = @ + 1]
    /\ total_invoices' = [total_invoices EXCEPT ![w] =
                            @ + Len(invoices_to_insert[w])]
    /\ total_non_invoices' = [total_non_invoices EXCEPT ![w] = @ + non_invoices[w]]
    /\ total_errors' = [total_errors EXCEPT ![w] = @ + Cardinality(errors[w])]
    /\ committed_uids' = committed_uids \cup Range(emails(w))
    /\ chunk_result' = [chunk_result EXCEPT ![w] = "ok"]
    /\ tx_folder' = [tx_folder EXCEPT ![w] = NoFolder]
    /\ NextChunk(w)
    /\ UNCHANGED <<envVars, cfgVars, folder, email_messages, invoices_to_insert,
                   errors, non_invoices, upload_failed, chunk_start, runs, failed_uids,
                   fetch_skipped, disturbed>>

\* a statement of the transaction or the commit raises: conn.rollback(), the
\* error leaves process_chunk and the worker counts the whole chunk as errors
TxFail(w) ==
    /\ UNCHANGED <<schedVars, loopVars, folderVars>>
    /\ pc[w] \in TxStatements
    /\ LET c == rollback(Committed, txn[w])
       IN  /\ invoice' = c.invoice
           /\ source_folder' = c.source_folder
    /\ txn' = [txn EXCEPT ![w] = EmptyTxn]
    /\ total_errors' = [total_errors EXCEPT ![w] = @ + Len(emails(w))]
    /\ failed_uids' = failed_uids \cup Range(emails(w))
    /\ disturbed' = TRUE
    /\ chunk_result' = [chunk_result EXCEPT ![w] =
          IF pc[w] = "tx_commit" THEN "commit_raised" ELSE "statement_raised"]
    /\ tx_folder' = [tx_folder EXCEPT ![w] = NoFolder]
    /\ NextChunk(w)
    /\ UNCHANGED <<envVars, cfgVars, folder, email_messages, chunks_processed,
                   total_invoices, total_non_invoices, invoices_to_insert, errors,
                   non_invoices, upload_failed, chunk_start, runs,
                   committed_uids, fetch_skipped>>

\* process_source_folder returns its result (the early return included)
\* and its locals are gone
Return(w) ==
    /\ UNCHANGED <<schedVars, loopVars, folderVars>>
    /\ pc[w] = "return"
    /\ pc' = [pc EXCEPT ![w] = "done"]
    /\ folder' = [folder EXCEPT ![w] = NoFolder]
    /\ email_messages' = [email_messages EXCEPT ![w] = <<>>]
    /\ imap' = [imap EXCEPT ![w] = FALSE]
    /\ chunk_num' = [chunk_num EXCEPT ![w] = 0]
    /\ chunks_processed' = [chunks_processed EXCEPT ![w] = 0]
    /\ total_errors' = [total_errors EXCEPT ![w] = 0]
    /\ total_invoices' = [total_invoices EXCEPT ![w] = 0]
    /\ total_non_invoices' = [total_non_invoices EXCEPT ![w] = 0]
    /\ invoices_to_insert' = [invoices_to_insert EXCEPT ![w] = <<>>]
    /\ errors' = [errors EXCEPT ![w] = {}]
    /\ non_invoices' = [non_invoices EXCEPT ![w] = 0]
    /\ upload_failed' = [upload_failed EXCEPT ![w] = FALSE]
    /\ tx_folder' = [tx_folder EXCEPT ![w] = NoFolder]
    /\ chunk_start' = [chunk_start EXCEPT ![w] = NoChunk]
    /\ chunk_result' = [chunk_result EXCEPT ![w] = "none"]
    /\ UNCHANGED <<envVars, cfgVars, dbVars, runs, txn, committed_uids,
                   failed_uids, fetch_skipped, disturbed>>

\* the worker's run ends without a result: the container is stopped when the
\* function's timeout runs out, at any point of the run, or the write of the
\* metrics file after the chunk loop raises and the handler re-raises.  The
\* database drops what the connection had not committed.
Ended(w) ==
    /\ UNCHANGED <<schedVars, loopVars, folderVars>>
    /\ LET c == rollback(Committed, txn[w])
       IN  /\ invoice' = c.invoice
           /\ source_folder' = c.source_folder
    /\ txn' = [txn EXCEPT ![w] = EmptyTxn]
    /\ pc' = [pc EXCEPT ![w] = "failed"]
    /\ folder' = [folder EXCEPT ![w] = NoFolder]
    /\ email_messages' = [email_messages EXCEPT ![w] = <<>>]
    /\ imap' = [imap EXCEPT ![w] = FALSE]
    /\ chunk_num' = [chunk_num EXCEPT ![w] = 0]
    /\ chunks_processed' = [chunks_processed EXCEPT ![w] = 0]
    /\ total_errors' = [total_errors EXCEPT ![w] = 0]
    /\ total_invoices' = [total_invoices EXCEPT ![w] = 0]
    /\ total_non_invoices' = [total_non_invoices EXCEPT ![w] = 0]
    /\ invoices_to_insert' = [invoices_to_insert EXCEPT ![w] = <<>>]
    /\ errors' = [errors EXCEPT ![w] = {}]
    /\ non_invoices' = [non_invoices EXCEPT ![w] = 0]
    /\ upload_failed' = [upload_failed EXCEPT ![w] = FALSE]
    /\ tx_folder' = [tx_folder EXCEPT ![w] = NoFolder]
    /\ chunk_start' = [chunk_start EXCEPT ![w] = NoChunk]
    /\ chunk_result' = [chunk_result EXCEPT ![w] = "none"]
    /\ fetch_skipped' = {}
    /\ disturbed' = TRUE
    /\ UNCHANGED <<envVars, cfgVars, runs, committed_uids, failed_uids>>

\* @app.function(timeout=3600): the run is stopped where it is
Terminate(w) ==
    /\ ~Resting(w)
    /\ Ended(w)

\* process_source_folder: the metrics file cannot be written or the volume
\* commit raises, after the chunk loop and gmail.close()
MetricsFail(w) ==
    /\ pc[w] = "return"
    /\ email_messages[w] # <<>>
    /\ Ended(w)

Next ==
    \/ Arrive
    \/ \E w \in Workers : Fetch(w)
    \/ \E w \in Workers : DivideIntoChunks(w)
    \/ \E w \in Workers : ProcessEmails(w)
    \/ \E w \in Workers : TxInsertInvoices(w)
    \/ \E w \in Workers : TxGetFolder(w)
    \/ \E w \in Workers : TxUpdateWatermarks(w)
    \/ \E w \in Workers : TxCommit(w)
    \/ \E w \in Workers : TxFail(w)
    \/ \E w \in Workers : Return(w)
    \/ \E w \in Workers : Terminate(w)
    \/ \E w \in Workers : MetricsFail(w)

Spec == Init /\ [][Next]_vars

\* ------------------------------------------- DatabaseClient: source_folder
\* (variant: the lookup goes by source and folder name only)
get_folder_by_name(rows, source_id, folder_name, uid_val) ==
    {r \in rows : r.source_id = source_id /\ r.folder_name = folder_name}

\* get_folder_by_name_and_uidvalidity: the rows the SELECT matches, of which
\* fetchone() takes one
get_folder_by_name_and_uidvalidity(rows, source_id, folder_name, uid_val) ==
    {r \in rows : /\ r.source_id = source_id
                  /\ r.folder_name = folder_name
                  /\ r.uid_validity = uid_val}

\* create_source_folder: the row of INSERT INTO source_folder (source_id,
\* folder_name, uid_validity, created_at, updated_at) with the next id; the
\* columns the statement leaves out are NULL
create_source_folder(id, source_id, folder_name, uid_val) ==
    [id |-> id, source_id |-> source_id, folder_name |-> folder_name,
     uid_validity |-> uid_val, high_water_mark |-> NULL,
     low_water_mark |-> NULL]

\* get_source_folder_by_id on the table
folder_by_id(rows, id) == {r \in rows : r.id = id}

\* ------------------------------------------------------- list_folders
\* gmail.list_folders(): one FolderInfo per name of the LIST answer, with the
\* UIDVALIDITY its STATUS gives; the names at the positions in skip are those
\* whose STATUS fails, which are left out
list_folders(src, skip) ==
    LET names == remote_folders[src]
        kept == SelectSeq([i \in 1..Len(names) |-> i], LAMBDA i : i \notin skip)
    IN  [k \in 1..Len(kept) |->
            [name |-> names[kept[k]],
             uid_validity |-> uid_validity[src][names[kept[k]]]]]

\* ------------------------------------------------------------- scheduler
\* sources = db.get_all_sources(): the rows ORDER BY id
sources == Ascending(source)

\* how a worker run ends: it raised before any commit, it fetched nothing,
\* it committed chunks that covered the UIDs 1..MaxUid and returned, or it
\* committed them and raised when it wrote its metrics
WorkerResults == {"raised", "empty", "processed", "failed"}

\* the results with which call.get() raises
Raising == {"raised", "failed"}

\* what a worker run leaves of its source_folder row
worker_effect(r, result) ==
    IF result \in {"raised", "empty"} THEN r
    ELSE [r EXCEPT !.high_water_mark = new_high(r, Uids),
                   !.low_water_mark = new_low(r, Uids)]

\* the table after the workers of calls[i..] ran with the given results
RECURSIVE run_workers(_, _, _, _)
run_workers(rows, calls, result, i) ==
    IF i > Len(calls) THEN rows
    ELSE run_workers({IF r.id = calls[i] THEN worker_effect(r, result[i]) ELSE r :
                         r \in rows},
                     calls, result, i + 1)

\* scheduler, step 5, one call: the dict of the worker that call.get()
\* returns, or the entry the handler appends when it raises
collect(folder_id, result) ==
    [source_folder_id |-> folder_id, error |-> result \in Raising]

\* the dict the scheduler returns
run_summary(s, res) ==
    [kind |-> "summary",
     sources_processed |-> Cardinality(source_tokens[s]),
     folders_reconciled |-> Len(all_folder_ids[s]),
     workers_spawned |-> Len(worker_calls[s]),
     workers_completed |-> Len(res)]

\* ----------------------------------------------------- the scheduler runs
\* no worker is followed: the state of the workers where only scheduler runs are
RunsIdle ==
    /\ source_folder = NoFolder
    /\ invoice = {}
    /\ runs = 0
    /\ pc = [w \in Workers |-> "idle"]
    /\ folder = [w \in Workers |-> NoFolder]
    /\ email_messages = [w \in Workers |-> <<>>]
    /\ imap = [w \in Workers |-> FALSE]
    /\ chunk_num = [w \in Workers |-> 0]
    /\ chunks_processed = [w \in Workers |-> 0]
    /\ total_errors = [w \in Workers |-> 0]
    /\ total_invoices = [w \in Workers |-> 0]
    /\ total_non_invoices = [w \in Workers |-> 0]
    /\ invoices_to_insert = [w \in Workers |-> <<>>]
    /\ errors = [w \in Workers |-> {}]
    /\ non_invoices = [w \in Workers |-> 0]
    /\ upload_failed = [w \in Workers |-> FALSE]
    /\ tx_folder = [w \in Workers |-> NoFolder]
    /\ txn = [w \in Workers |-> EmptyTxn]
    /\ chunk_start = [w \in Workers |-> NoChunk]
    /\ chunk_result = [w \in Workers |-> "none"]
    /\ committed_uids = {}
    /\ failed_uids = {}
    /\ fetch_skipped = {}
    /\ disturbed = FALSE

\* no worker runs, on an empty folder
WorkersIdle ==
    /\ mailbox = {}
    /\ uidnext = 1
    /\ batch_size = 0
    /\ chunk_size = 1
    /\ single_flight = TRUE
    /\ RunsIdle

\* the times of the clock and of the stored expiries
Times == 0..MaxTime

\* the OAuth columns a source row may hold: the tokens may be missing
Columns == [oauth2_access_token : {NoToken, "stored"},
            oauth2_refresh_token : {NoToken, "refresh"},
            oauth2_access_token_expires_at : {NULL} \cup Times]

\* the LIST answers: at most MaxListing names, a name possibly more than once
Listings == UNION {[1..n -> FolderNames] : n \in 0..MaxListing}

\* the tables and the locals of the runs before the first run
BeforeRun ==
    /\ uid_validity = [src \in Sources |-> [n \in FolderNames |-> 1]]
    /\ spc = [s \in Schedulers |-> "idle"]
    /\ source_tokens = [s \in Schedulers |-> {}]
    /\ source_i = [s \in Schedulers |-> 0]
    /\ folder_infos = [s \in Schedulers |-> <<>>]
    /\ info_i = [s \in Schedulers |-> 0]
    /\ reconciled_ids = [s \in Schedulers |-> <<>>]
    /\ all_folder_ids = [s \in Schedulers |-> <<>>]
    /\ worker_calls = [s \in Schedulers |-> <<>>]
    /\ results = [s \in Schedulers |-> <<>>]
    /\ summary = [s \in Schedulers |-> NoSummary]
    /\ created = [s \in Schedulers |-> {}]
    /\ prior = [s \in Schedulers |-> NoCall]
    /\ last_call = [src \in Sources |-> NoCall]

\* before the first run: the sources are those of the given set with the
\* given OAuth columns, each with one of the LIST answers, and every folder
\* is in its first UIDVALIDITY; the source_folder table is empty
BeforeRuns(ids, columns, listings) ==
    /\ WorkersIdle
    /\ LoopIdle
    /\ FoldersIdle
    /\ StepsIdle
    /\ source \in ids
    /\ stored \in [Sources -> columns]
    /\ \A src \in Sources \ source : stored[src] = NoExpiry
    /\ remote_folders \in [Sources -> listings]
    /\ \A src \in Sources \ source : remote_folders[src] = <<>>
    /\ BeforeRun

\* the source_folder table before any run
NoRows ==
    /\ source_folder_rows = {}
    /\ source_folder_seq = 1

\* the runs that overlap are followed on one source
SchedInit ==
    /\ BeforeRuns(SUBSET {Min(Sources)}, {NoExpiry}, Listings)
    /\ NoRows
    /\ clock = 0

\* the run holds a token for the source: source.id in source_tokens, and
\* source_tokens.get(folder.source_id) in the spawn loop
all_have_token(s, src) == source_tokens[s] = source
has_token(s, src) == src \in source_tokens[s]

\* the folder is deleted and made again on the server: a new UIDVALIDITY.
\* Only list_folders reads it, so the change is followed when a run is about
\* to list the folders of the source
EpochChanges(src, n) ==
    /\ \E s \in Schedulers : /\ spc[s] = "reconcile"
                              /\ source_i[s] <= Len(sources)
                              /\ sources[source_i[s]] = src
                              /\ src \in source_tokens[s]
    /\ n \in Range(remote_folders[src])
    /\ uid_validity[src][n] < MaxEpoch
    /\ uid_validity' = [uid_validity EXCEPT ![src][n] = @ + 1]
    /\ UNCHANGED <<workerVars, loopVars, folderVars,
                   accountVars, stepVars, remote_folders, tableVars, spc, reconcileVars,
                   schedulerVars, schedHistVars>>

\* scheduler, step 1: sources = db.get_all_sources(), which may raise, and
\* the early return for no sources
FetchSources(s) ==
    /\ spc[s] = "idle"
    /\ \A t \in 1..(s - 1) : spc[t] # "idle"    \* runs start in the order of their slots
    /\ \E raises \in BOOLEAN :
          IF raises
          THEN /\ spc' = [spc EXCEPT ![s] = "raised"]
               /\ UNCHANGED summary
          ELSE IF sources = <<>>
          THEN /\ spc' = [spc EXCEPT ![s] = "returned"]
               /\ summary' = [summary EXCEPT ![s] = [kind |-> "message",
                                  message |-> "No sources found"]]
          ELSE /\ spc' = [spc EXCEPT ![s] = "refresh"]
               /\ UNCHANGED summary
    /\ UNCHANGED <<workerVars, loopVars, folderVars,
                   accountVars, stepVars, remoteVars, tableVars, reconcileVars, source_tokens,
                   source_i, all_folder_ids, worker_calls, results, schedHistVars>>

\* scheduler, step 2: refresh_source_token for every source; it returns None
\* where the refresh failed, and that source gets no entry in source_tokens
RefreshTokens(s) ==
    /\ spc[s] = "refresh"
    /\ \E refreshed \in SUBSET source :
          source_tokens' = [source_tokens EXCEPT ![s] = refreshed]
    /\ source_i' = [source_i EXCEPT ![s] = 1]
    /\ spc' = [spc EXCEPT ![s] = "reconcile"]
    /\ UNCHANGED <<workerVars, loopVars, folderVars,
                   accountVars, stepVars, remoteVars, tableVars, reconcileVars, all_folder_ids,
                   worker_calls, results, summary, schedHistVars>>

\* scheduler, step 3, for the next source: skipped without a token; else
\* reconcile_folders up to gmail.list_folders(), whose exception makes
\* reconcile_folders return []
ListFolders(s) ==
    /\ spc[s] = "reconcile"
    /\ source_i[s] <= Len(sources)
    /\ LET src == sources[source_i[s]]
       IN  IF ~has_token(s, src)
           THEN /\ source_i' = [source_i EXCEPT ![s] = @ + 1]
                /\ UNCHANGED <<spc, reconcileVars, prior, reconciled>>
           ELSE /\ reconciled' = [reconciled EXCEPT ![s] = @ \cup {src}]
                /\ \E raises \in BOOLEAN, skip \in SUBSET (1..Len(remote_folders[src])) :
                      IF raises
                      THEN /\ source_i' = [source_i EXCEPT ![s] = @ + 1]
                           /\ UNCHANGED <<spc, reconcileVars, prior>>
                      ELSE /\ folder_infos' = [folder_infos EXCEPT ![s] =
                                                  list_folders(src, skip)]
                           /\ info_i' = [info_i EXCEPT ![s] = 1]
                           /\ reconciled_ids' = [reconciled_ids EXCEPT ![s] = <<>>]
                           /\ prior' = [prior EXCEPT ![s] = last_call[src]]
                           /\ spc' = [spc EXCEPT ![s] = "lookup"]
                           /\ UNCHANGED source_i
    /\ UNCHANGED <<workerVars, loopVars, folderVars, accountVars, refresh_i, spawn_i, token,
                   exchanged, remoteVars, tableVars, source_tokens, all_folder_ids,
                   worker_calls, results, summary, created, last_call>>

\* reconcile_folders, one folder_info: existing = db.get_folder_by_name_and_
\* uidvalidity(...); an existing row gives its id, no row leads to the create
Lookup(s) ==
    /\ spc[s] = "lookup"
    /\ info_i[s] <= Len(folder_infos[s])
    /\ LET src == sources[source_i[s]]
           folder_info == folder_infos[s][info_i[s]]
           matches == get_folder_by_name_and_uidvalidity(
                          source_folder_rows, src, folder_info.name,
                          folder_info.uid_validity)
       IN  IF matches # {}
           THEN \E existing \in matches :
                  /\ reconciled_ids' = [reconciled_ids EXCEPT ![s] =
                                            Append(@, existing.id)]
                  /\ info_i' = [info_i EXCEPT ![s] = @ + 1]
                  /\ UNCHANGED spc
           ELSE /\ spc' = [spc EXCEPT ![s] = "create"]
                /\ UNCHANGED <<reconciled_ids, info_i>>
    /\ UNCHANGED <<workerVars, loopVars, folderVars,
                   accountVars, stepVars, remoteVars, tableVars, folder_infos, schedulerVars,
                   schedHistVars>>

\* reconcile_folders, the same folder_info: folder_id = db.create_source_folder
\* (...), which inserts and commits
Create(s) ==
    /\ spc[s] = "create"
    /\ LET src == sources[source_i[s]]
           folder_info == folder_infos[s][info_i[s]]
           row == create_source_folder(source_folder_seq, src, folder_info.name,
                                       folder_info.uid_validity)
       IN  /\ source_folder_rows' = source_folder_rows \cup {row}
           /\ source_folder_seq' = source_folder_seq + 1
           /\ reconciled_ids' = [reconciled_ids EXCEPT ![s] = Append(@, row.id)]
           /\ created' = [created EXCEPT ![s] = @ \cup {row.id}]
    /\ info_i' = [info_i EXCEPT ![s] = @ + 1]
    /\ spc' = [spc EXCEPT ![s] = "lookup"]
    /\ UNCHANGED <<workerVars, loopVars, folderVars,
                   accountVars, stepVars, remoteVars, source, folder_infos, schedulerVars,
                   prior, last_call>>

\* (variant: the exception leaves reconcile_folders and ends the run)
ReconcileFails_raise(s) ==
    /\ \/ spc[s] = "lookup" /\ info_i[s] <= Len(folder_infos[s])
       \/ spc[s] = "create"
    /\ spc' = [spc EXCEPT ![s] = "raised"]
    /\ UNCHANGED <<workerVars, loopVars, folderVars, accountVars, stepVars, remoteVars, tableVars,
                   reconcileVars, schedulerVars, schedHistVars>>

\* reconcile_folders: a database call of the loop raises; the handler logs and
\* returns [], and the scheduler goes on with the next source
ReconcileFails(s) ==
    /\ \/ spc[s] = "lookup" /\ info_i[s] <= Len(folder_infos[s])
       \/ spc[s] = "create"
    /\ source_i' = [source_i EXCEPT ![s] = @ + 1]
    /\ spc' = [spc EXCEPT ![s] = "reconcile"]
    /\ folder_infos' = [folder_infos EXCEPT ![s] = <<>>]
    /\ info_i' = [info_i EXCEPT ![s] = 0]
    /\ reconciled_ids' = [reconciled_ids EXCEPT ![s] = <<>>]
    /\ created' = [created EXCEPT ![s] = {}]
    /\ prior' = [prior EXCEPT ![s] = NoCall]
    /\ UNCHANGED <<workerVars, loopVars, folderVars,
                   accountVars, stepVars, remoteVars, tableVars, source_tokens,
                   all_folder_ids, worker_calls, results, summary, last_call>>

\* reconcile_folders returns reconciled_ids; all_folder_ids.extend(folder_ids)
ReconcileReturns(s) ==
    /\ spc[s] = "lookup"
    /\ info_i[s] > Len(folder_infos[s])
    /\ all_folder_ids' = [all_folder_ids EXCEPT ![s] = @ \o reconciled_ids[s]]
    /\ source_i' = [source_i EXCEPT ![s] = @ + 1]
    /\ spc' = [spc EXCEPT ![s] = "reconcile"]
    /\ last_call' = [last_call EXCEPT ![sources[source_i[s]]] =
                        [made |-> TRUE, folder_infos |-> folder_infos[s],
                         folder_ids |-> reconciled_ids[s]]]
    /\ folder_infos' = [folder_infos EXCEPT ![s] = <<>>]
    /\ info_i' = [info_i EXCEPT ![s] = 0]
    /\ reconciled_ids' = [reconciled_ids EXCEPT ![s] = <<>>]
    /\ created' = [created EXCEPT ![s] = {}]
    /\ prior' = [prior EXCEPT ![s] = NoCall]
    /\ UNCHANGED <<workerVars, loopVars, folderVars,
                   accountVars, stepVars, remoteVars, tableVars, source_tokens,
                   worker_calls, results, summary>>

\* scheduler, step 4: for every id of all_folder_ids the folder is read and,
\* if it is there and its source has a token, a worker is spawned;
\* db.get_source_folder_by_id and process_source_folder.spawn are called
\* outside any try block
SpawnWorkers(s) ==
    /\ spc[s] = "reconcile"
    /\ source_i[s] > Len(sources)
    /\ \E raises \in BOOLEAN :
          IF raises
          THEN /\ spc' = [spc EXCEPT ![s] = "raised"]
               /\ UNCHANGED worker_calls
          ELSE /\ worker_calls' = [worker_calls EXCEPT ![s] =
                     SelectSeq(all_folder_ids[s],
                               LAMBDA id :
                                   \E r \in folder_by_id(source_folder_rows, id) :
                                       has_token(s, r.source_id))]
               /\ spc' = [spc EXCEPT ![s] = "await"]
    /\ UNCHANGED <<workerVars, loopVars, folderVars,
                   accountVars, stepVars, remoteVars, tableVars, reconcileVars, source_tokens,
                   source_i, all_folder_ids, results, summary, schedHistVars>>

\* scheduler, step 5 and the return: call.get() for every spawned worker,
\* an exception of a worker becoming an error result, then the summary
AwaitWorkers(s) ==
    /\ spc[s] = "await"
    /\ \E result \in [1..Len(worker_calls[s]) -> WorkerResults] :
          LET res == [i \in 1..Len(worker_calls[s]) |->
                         collect(worker_calls[s][i], result[i])]
          IN  /\ source_folder_rows' =
                    run_workers(source_folder_rows, worker_calls[s], result, 1)
              /\ results' = [results EXCEPT ![s] = res]
              /\ summary' = [summary EXCEPT ![s] = run_summary(s, res)]
    /\ spc' = [spc EXCEPT ![s] = "returned"]
    /\ UNCHANGED <<workerVars, loopVars, folderVars,
                   accountVars, stepVars, remoteVars, source, source_folder_seq, reconcileVars,
                   source_tokens, source_i, all_folder_ids, worker_calls,
                   schedHistVars>>

\* the run is over, by a return or by an exception: its locals are gone
Ends(s) ==
    /\ spc[s] \in {"returned", "raised"}
    /\ spc' = [spc EXCEPT ![s] = "done"]
    /\ source_tokens' = [source_tokens EXCEPT ![s] = {}]
    /\ source_i' = [source_i EXCEPT ![s] = 0]
    /\ all_folder_ids' = [all_folder_ids EXCEPT ![s] = <<>>]
    /\ worker_calls' = [worker_calls EXCEPT ![s] = <<>>]
    /\ results' = [results EXCEPT ![s] = <<>>]
    /\ summary' = [summary EXCEPT ![s] = NoSummary]
    /\ refresh_i' = [refresh_i EXCEPT ![s] = 0]
    /\ spawn_i' = [spawn_i EXCEPT ![s] = 0]
    /\ token' = [token EXCEPT ![s] = NoToken]
    /\ exchanged' = [exchanged EXCEPT ![s] = FALSE]
    /\ reconciled' = [reconciled EXCEPT ![s] = {}]
    /\ UNCHANGED <<workerVars, loopVars, folderVars, accountVars, remoteVars, tableVars,
                   reconcileVars, schedHistVars>>

SchedNext ==
    \/ \E src \in Sources, n \in FolderNames : EpochChanges(src, n)
    \/ \E s \in Schedulers : FetchSources(s)
    \/ \E s \in Schedulers : RefreshTokens(s)
    \/ \E s \in Schedulers : ListFolders(s)
    \/ \E s \in Schedulers : Lookup(s)
    \/ \E s \in Schedulers : Create(s)
    \/ \E s \in Schedulers : ReconcileFails(s)
    \/ \E s \in Schedulers : ReconcileReturns(s)
    \/ \E s \in Schedulers : SpawnWorkers(s)
    \/ \E s \in Schedulers : AwaitWorkers(s)
    \/ \E s \in Schedulers : Ends(s)

\* scheduler runs that may overlap in time
SchedSpec == SchedInit /\ [][SchedNext]_vars

\* ---------------------------------------------------- one run, step by step
\* the one run that is followed step by step starts
StartRun(s) ==
    /\ \A t \in Schedulers \ {s} : spc[t] = "idle"
    /\ FetchSources(s)

\* refresh_source_token, the check: the stored expiry is set and later than
\* the time of the call
still_valid_at_expiry(expires_at, at) == expires_at # NULL /\ expires_at >= at
still_valid(expires_at, at) == expires_at # NULL /\ expires_at > at

\* GmailSource.refresh_access_token: it raises without a refresh token and
\* when the POST to the token endpoint fails; else it returns the access
\* token of the answer
refresh_access_token(refresh_token, post_fails) ==
    IF refresh_token = NoToken \/ post_fails
    THEN [raised |-> TRUE, new_token |-> NoToken]
    ELSE [raised |-> FALSE, new_token |-> "new"]

\* refresh_source_token: the token it returns (NoToken for None) and whether
\* it called refresh_access_token
refresh_source_token(columns, at, post_fails) ==
    IF still_valid(columns.oauth2_access_token_expires_at, at)
    THEN [token |-> columns.oauth2_access_token, exchanged |-> FALSE]
    ELSE LET answer == refresh_access_token(columns.oauth2_refresh_token, post_fails)
         IN  [token |-> IF answer.raised THEN NoToken ELSE answer.new_token,
              exchanged |-> TRUE]

\* what the refresh loop writes to the source table
RefreshStep_write_back(src, answer) ==
    stored' = [stored EXCEPT ![src].oauth2_access_token = answer.token]
RefreshStep(src, answer) ==
    UNCHANGED stored

\* scheduler, step 2, the next source: token = refresh_source_token(source,
\* config), kept in source_tokens if it is not empty; after the last source
\* the loop of step 3 begins
RefreshToken(s) ==
    /\ spc[s] = "refresh"
    /\ IF refresh_i[s] < Len(sources)
       THEN \E post_fails \in BOOLEAN :
              LET src == sources[refresh_i[s] + 1]
                  answer == refresh_source_token(stored[src], clock, post_fails)
              IN  /\ token' = [token EXCEPT ![s] = answer.token]
                  /\ exchanged' = [exchanged EXCEPT ![s] = answer.exchanged]
                  /\ source_tokens' = [source_tokens EXCEPT ![s] =
                         IF answer.token # NoToken THEN @ \cup {src} ELSE @]
                  /\ refresh_i' = [refresh_i EXCEPT ![s] = @ + 1]
                  /\ RefreshStep(src, answer)
                  /\ UNCHANGED <<spc, source_i>>
       ELSE /\ spc' = [spc EXCEPT ![s] = "reconcile"]
            /\ source_i' = [source_i EXCEPT ![s] = 1]
            /\ UNCHANGED <<token, exchanged, source_tokens, refresh_i, stored>>
    /\ UNCHANGED <<workerVars, loopVars, folderVars,
                   clock, spawn_i, reconciled, remoteVars, tableVars,
                   reconcileVars, all_folder_ids, worker_calls, results, summary,
                   schedHistVars>>

\* scheduler, step 4, the next folder_id: folder = db.get_source_folder_by_id
\* (folder_id) and process_source_folder.spawn(...), both outside any try
\* block; an id without a row or of a source without a token is skipped;
\* after the last id the loop of step 5 begins
SpawnWorker_eager(s) ==
    /\ spc[s] = "reconcile"
    /\ source_i[s] > Len(sources)
    /\ spawn_i[s] < Len(all_folder_ids[s])
    /\ LET folder_id == all_folder_ids[s][spawn_i[s] + 1]
       IN  /\ worker_calls' = [worker_calls EXCEPT ![s] = Append(@, folder_id)]
           /\ results' = [results EXCEPT ![s] =
                             Append(@, collect(folder_id, "empty"))]
    /\ spawn_i' = [spawn_i EXCEPT ![s] = @ + 1]
    /\ UNCHANGED <<workerVars, loopVars, folderVars,
                   accountVars, refresh_i, token, exchanged, reconciled,
                   remoteVars, tableVars, reconcileVars, source_tokens, source_i,
                   all_folder_ids, spc, summary, schedHistVars>>
SpawnWorker(s) ==
    /\ spc[s] = "reconcile"
    /\ source_i[s] > Len(sources)
    /\ IF spawn_i[s] < Len(all_folder_ids[s])
       THEN \E raises \in BOOLEAN :
              LET folder_id == all_folder_ids[s][spawn_i[s] + 1]
                  found == folder_by_id(source_folder_rows, folder_id)
              IN  IF raises
                  THEN /\ spc' = [spc EXCEPT ![s] = "raised"]
                       /\ UNCHANGED <<worker_calls, spawn_i>>
                  ELSE /\ worker_calls' = [worker_calls EXCEPT ![s] =
                              IF \E r \in found : has_token(s, r.source_id)
                              THEN Append(@, folder_id) ELSE @]
                       /\ spawn_i' = [spawn_i EXCEPT ![s] = @ + 1]
                       /\ UNCHANGED spc
       ELSE /\ spc' = [spc EXCEPT ![s] = "await"]
            /\ UNCHANGED <<worker_calls, spawn_i>>
    /\ UNCHANGED <<workerVars, loopVars, folderVars,
                   accountVars, refresh_i, token, exchanged, reconciled,
                   remoteVars, tableVars, reconcileVars, source_tokens, source_i,
                   all_folder_ids, results, summary, schedHistVars>>

\* scheduler, step 5, the next call: result = call.get() in a try block whose
\* handler appends an error entry for the folder_id; after the last call the
\* results are added up and the run returns
AwaitWorker_reraise(s) ==
    /\ spc[s] = "await"
    /\ Len(results[s]) < Len(worker_calls[s])
    /\ spc' = [spc EXCEPT ![s] = "raised"]
    /\ UNCHANGED <<workerVars, loopVars, folderVars, accountVars, stepVars, remoteVars,
                   tableVars, reconcileVars, source_tokens, source_i,
                   all_folder_ids, worker_calls, results, summary, schedHistVars>>
AwaitWorker(s) ==
    /\ spc[s] = "await"
    /\ IF Len(results[s]) < Len(worker_calls[s])
       THEN \E result \in WorkerResults :
              LET folder_id == worker_calls[s][Len(results[s]) + 1]
              IN  /\ source_folder_rows' =
                        {IF r.id = folder_id THEN worker_effect(r, result) ELSE r :
                            r \in source_folder_rows}
                  /\ results' = [results EXCEPT ![s] =
                                    Append(@, collect(folder_id, result))]
                  /\ UNCHANGED <<spc, summary>>
       ELSE /\ summary' = [summary EXCEPT ![s] = run_summary(s, results[s])]
            /\ spc' = [spc EXCEPT ![s] = "returned"]
            /\ UNCHANGED <<source_folder_rows, results>>
    /\ UNCHANGED <<workerVars, loopVars, folderVars, accountVars, stepVars, remoteVars, source,
                   source_folder_seq, reconcileVars, source_tokens, source_i,
                   all_folder_ids, worker_calls, schedHistVars>>

\* the source_folder table an earlier run left: it created the record of the
\* INBOX of every source, and its workers processed the UIDs 1..MaxUid
EarlierRun ==
    /\ source_folder_rows =
          {worker_effect(create_source_folder(src, src, "INBOX", 1), "processed") :
              src \in source}
    /\ source_folder_seq = Cardinality(source) + 1

\* the sets of sources the table may hold: the first sources, up to all
FirstSources == {1..n : n \in 0..NumSources}

\* the accounts of the run that is followed step by step: the row of a source
\* holds no expiry, or one that is later than now
RunInit ==
    /\ BeforeRuns(FirstSources,
                  {NoExpiry, [NoExpiry EXCEPT !.oauth2_access_token_expires_at = MaxTime]},
                  Listings)
    /\ NoRows \/ EarlierRun
    /\ clock = 0

RunNext ==
    \/ \E s \in Schedulers : StartRun(s)
    \/ \E s \in Schedulers : RefreshToken(s)
    \/ \E s \in Schedulers : ListFolders(s)
    \/ \E s \in Schedulers : Lookup(s)
    \/ \E s \in Schedulers : Create(s)
    \/ \E s \in Schedulers : ReconcileFails(s)
    \/ \E s \in Schedulers : ReconcileReturns(s)
    \/ \E s \in Schedulers : SpawnWorker(s)
    \/ \E s \in Schedulers : AwaitWorker(s)
    \/ \E s \in Schedulers : Ends(s)

\* one scheduler run, its loops step by step
RunSpec == RunInit /\ [][RunNext]_vars

\* the accounts refresh_source_token may be given: any columns and any time
RefreshInit ==
    /\ BeforeRuns(FirstSources, Columns, {<<>>})
    /\ NoRows
    /\ clock \in Times

RefreshNext ==
    \/ \E s \in Schedulers : StartRun(s)
    \/ \E s \in Schedulers : RefreshToken(s)

\* steps 1 and 2 of a scheduler run over every account
RefreshSpec == RefreshInit /\ [][RefreshNext]_vars

\* ------------------------------------- process_chunk, message by message
\* the messages a chunk can hold: an invoice with or without a number and
\* with up to MaxAttachments attachments, or a message that is no invoice; a
\* chunk is never empty
Messages ==
    [kind : {"invoice"}, invoice_number : {NULL} \cup 1..MaxInvoiceNumber,
     attachments : 0..MaxAttachments]
    \cup [kind : {"non_invoice"}, invoice_number : {NULL}, attachments : {0}]

\* S3Client.generate_key: within a folder and a UIDVALIDITY the key is made of
\* the message's UID and the attachment's file name
generate_key(message_uid, filename) ==
    [message_uid |-> message_uid, filename |-> filename]

\* the key of the attachment in hand (the UID of a message is its place in
\* the chunk, its attachments are named by their number)
s3_key == generate_key(email_i, attachment_i)

ChunkInit ==
    /\ WorkersIdle
    /\ SchedulersIdle
    /\ FoldersIdle
    /\ mail \in UNION {[1..n -> Messages] : n \in 1..MaxChunk}
    /\ bucket = {}
    /\ invoice_rows = {}
    /\ attempts = 0
    /\ lpc = "idle"
    /\ email_i = 0
    /\ attachment_i = 0
    /\ attached_files = <<>>
    /\ to_insert = <<>>
    /\ failed = {}

\* the for loop goes to its next message, or ends and the transaction begins
NextEmail ==
    /\ attachment_i' = 0
    /\ attached_files' = <<>>
    /\ IF email_i < Len(mail)
       THEN /\ email_i' = email_i + 1
            /\ lpc' = "parse"
       ELSE /\ email_i' = 0
            /\ lpc' = "transaction"

\* invoice.attached_files = attached_files; invoices_to_insert.append(invoice)
AppendInvoice(files) ==
    /\ to_insert' = Append(to_insert,
                           [uid |-> email_i,
                            invoice_number |-> mail[email_i].invoice_number,
                            attached_files |-> files])
    /\ UNCHANGED failed
    /\ NextEmail

\* except Exception of the message loop: the UID goes to errors, the loop
\* goes on
MessageFails ==
    /\ failed' = failed \cup {email_i}
    /\ UNCHANGED to_insert
    /\ NextEmail

\* (variant: the handler of the attachment loop logs the failure and the loop
\* goes on with the key appended)
AttachmentFails_continue ==
    LET files == Append(attached_files, s3_key)
    IN  IF attachment_i < mail[email_i].attachments
        THEN /\ attachment_i' = attachment_i + 1
             /\ attached_files' = files
             /\ lpc' = "object_exists"
             /\ UNCHANGED <<email_i, to_insert, failed>>
        ELSE AppendInvoice(files)

\* except Exception of the attachment loop: logs and re-raises into the
\* handler of the message loop
AttachmentFails == MessageFails

\* attached_files.append(AttachedFile(file_key=s3_key)), then the next
\* attachment, or the invoice is complete
AttachmentDone ==
    LET files == Append(attached_files, s3_key)
    IN  IF attachment_i < mail[email_i].attachments
        THEN /\ attachment_i' = attachment_i + 1
             /\ attached_files' = files
             /\ lpc' = "object_exists"
             /\ UNCHANGED <<email_i, to_insert, failed>>
        ELSE AppendInvoice(files)

\* process_chunk is called on the chunk (again, after an earlier call)
CallProcessChunk ==
    /\ UNCHANGED <<workerVars, schedVars, folderVars>>
    /\ lpc \in {"idle", "returned", "raised"}
    /\ attempts < MaxRuns
    /\ attempts' = attempts + 1
    /\ lpc' = "parse"
    /\ email_i' = 1
    /\ attachment_i' = 0
    /\ attached_files' = <<>>
    /\ to_insert' = <<>>
    /\ failed' = {}
    /\ UNCHANGED <<mail, bucket, invoice_rows>>

\* parse, classify and extract for the current message: one of them raises
\* (or the extraction returns None), or the message is no invoice, or its
\* invoice is extracted and the attachment loop begins
ParseClassifyExtract ==
    /\ UNCHANGED <<workerVars, schedVars, folderVars>>
    /\ lpc = "parse"
    /\ \E raises \in BOOLEAN :
          IF raises THEN MessageFails
          ELSE IF mail[email_i].kind = "non_invoice"
          THEN /\ UNCHANGED <<to_insert, failed>>
               /\ NextEmail
          ELSE IF mail[email_i].attachments = 0
          THEN AppendInvoice(<<>>)
          ELSE /\ attachment_i' = 1
               /\ attached_files' = <<>>
               /\ lpc' = "object_exists"
               /\ UNCHANGED <<email_i, to_insert, failed>>
    /\ UNCHANGED <<mail, bucket, invoice_rows, attempts>>

\* s3.object_exists(s3_key): head_object finds the key, answers 404, or fails
\* otherwise and object_exists raises
ObjectExists ==
    /\ UNCHANGED <<workerVars, schedVars, folderVars>>
    /\ lpc = "object_exists"
    /\ \E raises \in BOOLEAN :
          IF raises THEN AttachmentFails
          ELSE IF s3_key \in bucket
          THEN AttachmentDone
          ELSE /\ lpc' = "upload"
               /\ UNCHANGED <<email_i, attachment_i, attached_files, to_insert,
                              failed>>
    /\ UNCHANGED <<mail, bucket, invoice_rows, attempts>>

\* s3.upload_attachment(key=s3_key, ...): put_object stores the object, or raises
UploadAttachment ==
    /\ UNCHANGED <<workerVars, schedVars, folderVars>>
    /\ lpc = "upload"
    /\ \E raises \in BOOLEAN :
          IF raises
          THEN /\ AttachmentFails
               /\ UNCHANGED bucket
          ELSE /\ bucket' = bucket \cup {s3_key}
               /\ AttachmentDone
    /\ UNCHANGED <<mail, invoice_rows, attempts>>

\* with db.transaction(): the invoices are inserted and committed, and
\* process_chunk returns; or the transaction raises and nothing is stored
Transaction ==
    /\ UNCHANGED <<workerVars, schedVars, folderVars>>
    /\ lpc = "transaction"
    /\ \E raises \in BOOLEAN :
          IF raises
          THEN /\ lpc' = "raised"
               /\ UNCHANGED invoice_rows
          ELSE /\ lpc' = "returned"
               /\ invoice_rows' =
                     IF to_insert # <<>>
                     THEN commit([invoice |-> invoice_rows,
                                  source_folder |-> NoFolder],
                                 [EmptyTxn EXCEPT !.rows =
                                     insert_invoices(invoice_rows, {},
                                                     to_insert)]).invoice
                     ELSE invoice_rows
    /\ UNCHANGED <<mail, bucket, attempts, email_i, attachment_i, attached_files,
                   to_insert, failed>>

ChunkNext ==
    \/ CallProcessChunk
    \/ ParseClassifyExtract
    \/ ObjectExists
    \/ UploadAttachment
    \/ Transaction

ChunkSpec == ChunkInit /\ [][ChunkNext]_vars

\* ------------------------------------------ workers on rows of source_folder
\* Workers that run at a time, each on the row of the source_folder table it
\* was called with; a chunk transaction is followed statement by statement.
\* The rows are read as committed (the connection sets no isolation level)
\* and every folder holds the messages of mailbox.
FolderIds == 1..NumFolders

\* the rows a run can find: as create_source_folder left them, or with the
\* watermarks of chunks committed before
FoundRows(mb) ==
    {NoFolder} \cup {update_source_folder_watermarks(marks[1], marks[2], 0) :
                        marks \in {m \in mb \X mb : m[2] <= m[1]}}

\* (variant: the UPDATE has no WHERE clause)
update_row_every(rows, id, row) == [i \in DOMAIN rows |-> row]

\* UPDATE source_folder SET ... WHERE id = %s, once committed
update_row(rows, id, row) == [rows EXCEPT ![id] = row]

\* the chunk under way: email_messages[i:i + chunk_size]
row_emails(w) == chunk(messages[w], chunk_i[w], chunk_size)

\* the UPDATE of another transaction on the same row is not yet committed:
\* the row is locked
RowLocked(w) ==
    \E v \in Workers \ {w} : folder_of[v] = folder_of[w] /\ fpc[v] = "commit"

FolderInit ==
    /\ SchedulersIdle
    /\ LoopIdle
    /\ RunsIdle
    /\ mailbox \in SUBSET Uids \ {{}}
    /\ uidnext = Max(mailbox) + 1
    /\ batch_size \in 1..MaxBatch
    /\ chunk_size \in 1..MaxChunk
    /\ single_flight = FALSE
    /\ folder_rows \in [FolderIds -> FoundRows(mailbox)]
    /\ folder_of \in [Workers -> FolderIds]
    /\ messages = [w \in Workers |-> <<>>]
    /\ chunk_i = [w \in Workers |-> 0]
    /\ fpc = [w \in Workers |-> "idle"]
    /\ row_read = [w \in Workers |-> NoFolder]
    /\ row_write = [w \in Workers |-> NoFolder]
    /\ processed = [w \in Workers |-> {}]
    /\ skipped = [w \in Workers |-> {}]
    /\ rows_before = folder_rows

\* process_source_folder up to the chunk loop: the row is read, the batch is
\* fetched without the messages of bad, whose FETCH does not answer OK, and
\* an empty batch returns early
FetchBatch(w, bad) ==
    /\ fpc[w] = "idle"
    /\ \E reply \in {"BAD", "NO"} :
        LET f == folder_rows[folder_of[w]]
            email_messages_w == fetch(mailbox, f.high_water_mark, f.low_water_mark,
                                      batch_size, bad)
        IN  IF HistoricalSearchInvalid(f.low_water_mark) /\ reply = "BAD"
            THEN /\ fpc' = [fpc EXCEPT ![w] = "failed"]
                 /\ UNCHANGED <<messages, chunk_i, skipped>>
            ELSE /\ messages' = [messages EXCEPT ![w] = email_messages_w]
                 /\ skipped' = [skipped EXCEPT ![w] = bad]
                 /\ IF email_messages_w = <<>>
                    THEN /\ fpc' = [fpc EXCEPT ![w] = "done"]
                         /\ UNCHANGED chunk_i
                    ELSE /\ fpc' = [fpc EXCEPT ![w] = "select"]
                         /\ chunk_i' = [chunk_i EXCEPT ![w] = 1]
    /\ UNCHANGED <<workerVars, schedVars, loopVars, folder_rows, folder_of, row_read,
                   row_write, processed, rows_before>>

\* the fetch of a worker every FETCH of which answers
FolderFetch(w) == FetchBatch(w, {})

\* folder = db.get_source_folder_by_id(source_folder_id)
FolderSelect(w) ==
    /\ fpc[w] = "select"
    /\ row_read' = [row_read EXCEPT ![w] = folder_rows[folder_of[w]]]
    /\ fpc' = [fpc EXCEPT ![w] = "update"]
    /\ UNCHANGED <<workerVars, schedVars, loopVars, folder_rows, folder_of, messages,
                   chunk_i, row_write, processed, skipped, rows_before>>

\* high / low from the row that was read and the chunk's UIDs, then
\* db.update_source_folder_watermarks, which waits while the row is locked
FolderUpdate(w) ==
    /\ fpc[w] = "update"
    /\ ~RowLocked(w)
    /\ LET uids == Range(row_emails(w))
           high == new_high(row_read[w], uids)
           low == new_low(row_read[w], uids)
       IN  row_write' = [row_write EXCEPT ![w] =
                            update_source_folder_watermarks(high, low, 0)]
    /\ fpc' = [fpc EXCEPT ![w] = "commit"]
    /\ UNCHANGED <<workerVars, schedVars, loopVars, folder_rows, folder_of, messages,
                   chunk_i, row_read, processed, skipped, rows_before>>

\* the chunk loop of process_source_folder: the next chunk, or the return
FolderNextChunk(w) ==
    IF chunk_i[w] < num_chunks(messages[w], chunk_size)
    THEN /\ chunk_i' = [chunk_i EXCEPT ![w] = chunk_i[w] + 1]
         /\ fpc' = [fpc EXCEPT ![w] = "select"]
    ELSE /\ UNCHANGED chunk_i
         /\ fpc' = [fpc EXCEPT ![w] = "done"]

\* conn.commit() at the exit of the transaction
FolderCommit(w) ==
    /\ fpc[w] = "commit"
    /\ folder_rows' = update_row(folder_rows, folder_of[w], row_write[w])
    /\ processed' = [processed EXCEPT ![w] = @ \cup Range(row_emails(w))]
    /\ row_read' = [row_read EXCEPT ![w] = NoFolder]
    /\ row_write' = [row_write EXCEPT ![w] = NoFolder]
    /\ FolderNextChunk(w)
    /\ UNCHANGED <<workerVars, schedVars, loopVars, folder_of, messages, skipped,
                   rows_before>>

\* a statement or the commit raises: conn.rollback(), and the handler of the
\* chunk loop goes on
FolderRollback(w) ==
    /\ fpc[w] \in {"select", "update", "commit"}
    /\ row_read' = [row_read EXCEPT ![w] = NoFolder]
    /\ row_write' = [row_write EXCEPT ![w] = NoFolder]
    /\ FolderNextChunk(w)
    /\ UNCHANGED <<workerVars, schedVars, loopVars, folder_rows, folder_of, messages,
                   processed, skipped, rows_before>>

FolderNext ==
    \/ \E w \in Workers : FolderFetch(w)
    \/ \E w \in Workers : FolderSelect(w)
    \/ \E w \in Workers : FolderUpdate(w)
    \/ \E w \in Workers : FolderCommit(w)
    \/ \E w \in Workers : FolderRollback(w)

FolderSpec == FolderInit /\ [][FolderNext]_vars

\* ------------------------------------------ runs that follow one another
\* The workers of a row run one after the other, from the never-processed
\* row on.  No statement of a chunk raises; a FETCH may fail, and its message
\* is then left out of the batch.
Serial(w) ==
    \A v \in Workers \ {w} :
        folder_of[v] = folder_of[w] => fpc[v] \in {"idle", "done", "failed"}

SerialInit ==
    /\ SchedulersIdle
    /\ LoopIdle
    /\ RunsIdle
    /\ mailbox \in SUBSET (1..MaxMail) \ {{}}
    /\ uidnext = Max(mailbox) + 1
    /\ batch_size \in 1..MaxBatch
    /\ chunk_size \in 1..MaxChunk
    /\ single_flight = TRUE
    /\ folder_rows = [id \in FolderIds |-> NoFolder]
    /\ folder_of \in [Workers -> FolderIds]
    /\ messages = [w \in Workers |-> <<>>]
    /\ chunk_i = [w \in Workers |-> 0]
    /\ fpc = [w \in Workers |-> "idle"]
    /\ row_read = [w \in Workers |-> NoFolder]
    /\ row_write = [w \in Workers |-> NoFolder]
    /\ processed = [w \in Workers |-> {}]
    /\ skipped = [w \in Workers |-> {}]
    /\ rows_before = folder_rows

\* the steps of a worker while no other worker of its row is under way
SerialFetch(w) ==
    /\ Serial(w)
    /\ LET f == folder_rows[folder_of[w]]
           selected == uids_to_fetch(mailbox, f.high_water_mark, f.low_water_mark,
                                     batch_size)
       IN  \E bad \in SUBSET Range(selected) :
              /\ Cardinality(bad) <= MaxFetchFail
              /\ FetchBatch(w, bad)

SerialSelect(w) == Serial(w) /\ FolderSelect(w)

SerialUpdate(w) == Serial(w) /\ FolderUpdate(w)

SerialCommit(w) == Serial(w) /\ FolderCommit(w)

SerialNext ==
    \/ \E w \in Workers : SerialFetch(w)
    \/ \E w \in Workers : SerialSelect(w)
    \/ \E w \in Workers : SerialUpdate(w)
    \/ \E w \in Workers : SerialCommit(w)

SerialSpec == SerialInit /\ [][SerialNext]_vars

\* ------------------------------------------------------------------ claims
IsSet(f) == f.high_water_mark # NULL /\ f.low_water_mark # NULL

\* the step in which gmail.fetch returns to worker w
FetchReturns(w) == pc[w] # "fetched" /\ pc'[w] = "fetched"

\* the step in which the chunk transaction of worker w commits
ChunkCommits(w) == pc[w] = "tx_commit" /\ chunk_result'[w] = "ok"

\* the n largest elements of S, ascending
LargestAscending(S, n) ==
    Ascending(CHOOSE T \in SUBSET S :
                  Cardinality(T) = n /\ \A a \in T : \A b \in S \ T : a > b)

\* the n smallest elements of S, ascending
SmallestAscending(S, n) ==
    Ascending(CHOOSE T \in SUBSET S :
                  Cardinality(T) = n /\ \A a \in T : \A b \in S \ T : a < b)

Smaller(a, b) == IF a <= b THEN a ELSE b
Larger(a, b) == IF a >= b THEN a ELSE b

\* C1: with one worker at a time on the tracking record, no step lowers the
\* stored high_water_mark and no step raises the stored low_water_mark; a
\* mark that is set stays set.
C1_WatermarksMonotonic ==
    [][/\ source_folder.high_water_mark # NULL =>
            /\ source_folder'.high_water_mark # NULL
            /\ source_folder'.high_water_mark >= source_folder.high_water_mark
       /\ source_folder.low_water_mark # NULL =>
            /\ source_folder'.low_water_mark # NULL
            /\ source_folder'.low_water_mark <= source_folder.low_water_mark]_vars

\* a run that started with both marks set has committed chunks that raised
\* the high mark and lowered the low mark
C1_Witness ==
    \E w \in Workers :
        /\ chunk_result[w] = "ok"
        /\ IsSet(folder[w])
        /\ source_folder.high_water_mark > folder[w].high_water_mark
        /\ source_folder.low_water_mark < folder[w].low_water_mark

\* C2: after the transaction of a chunk raised (at the insert, the read of
\* the watermarks, the update or the commit), the stored invoices and the
\* stored tracking record (both watermarks and last_processed_at) are what
\* they were when the chunk started, and the connection holds no write.
C2_ChunkAtomicity ==
    \A w \in Workers :
        chunk_result[w] \in ChunkFailures =>
            /\ invoice = chunk_start[w].committed.invoice
            /\ source_folder = chunk_start[w].committed.source_folder
            /\ txn[w] = EmptyTxn

\* the commit of a chunk with an extracted invoice raised, after its insert
\* and its watermark update ran
C2_Witness ==
    \E w \in Workers :
        /\ chunk_result[w] = "commit_raised"
        /\ invoices_to_insert[w] # <<>>

\* C3: the fetch of the run that follows a run with a failed chunk returns
\* every UID of the failed chunks (no FETCH failed, and the fetch returned
\* fewer than batch_size messages, so truncation dropped none).
C3_FailedChunkRetried ==
    [][\A w \in Workers :
          (/\ FetchReturns(w)
           /\ fetch_skipped' = {}
           /\ Len(email_messages'[w]) < batch_size) =>
              failed_uids \subseteq Range(email_messages'[w])]_vars

\* C4: with a mailbox that received no mail, no failure and batch_size >= 1,
\* a run whose fetch brings no UID that was not attempted before (from then
\* on no run can bring one) finds every UID of the mailbox attempted.
C4_BackfillComplete ==
    \A w \in Workers :
        (/\ pc[w] = "fetched"
         /\ ~disturbed
         /\ batch_size >= 1
         /\ Range(email_messages[w]) \subseteq committed_uids)
            => mailbox \subseteq committed_uids

\* C5: the commit of a chunk stores max(previous high, largest UID of the
\* chunk) and min(previous low, smallest UID of the chunk), the chunk's UIDs
\* being all those attempted, whatever became of them.
C5_WatermarksFromAttempted ==
    [][\A w \in Workers :
          ChunkCommits(w) =>
              LET ids == Range(emails(w))
                  f == source_folder
              IN  /\ source_folder'.high_water_mark =
                        IF f.high_water_mark = NULL THEN Max(ids)
                        ELSE Larger(f.high_water_mark, Max(ids))
                  /\ source_folder'.low_water_mark =
                        IF f.low_water_mark = NULL THEN Min(ids)
                        ELSE Smaller(f.low_water_mark, Min(ids))]_vars

\* a committed chunk whose largest UID had a per-message error and whose
\* smallest UID was no invoice, and both became the watermarks
C5_Witness ==
    \E w \in Workers :
        /\ chunk_result[w] = "ok"
        /\ source_folder.high_water_mark \in errors[w]
        /\ source_folder.low_water_mark \in Range(emails(w)) \ errors[w]
        /\ engine(source_folder.low_water_mark).kind = "non_invoice"

C7_FetchOutsideWatermarks ==
    \A w \in Workers :
        (pc[w] = "fetched" /\ IsSet(folder[w])) =>
            \A u \in Range(email_messages[w]) :
                u > folder[w].high_water_mark \/ u < folder[w].low_water_mark

\* C8: with both watermarks null, fetch returns the min(limit, size) largest
\* UIDs of the folder, ascending (no FETCH failed).
C8_ColdStartNewest ==
    [][\A w \in Workers :
          (/\ FetchReturns(w)
           /\ source_folder.high_water_mark = NULL
           /\ source_folder.low_water_mark = NULL
           /\ fetch_skipped' = {}) =>
              email_messages'[w] =
                  LargestAscending(mailbox,
                                   Smaller(batch_size, Cardinality(mailbox)))]_vars

\* C9: with both watermarks set, N UIDs above high and H UIDs below low,
\* fetch returns min(N, limit) UIDs above high followed, when N < limit, by
\* the min(H, limit - N) smallest UIDs below low, ascending (no FETCH failed).
C9_TruncationPriority ==
    [][\A w \in Workers :
          (FetchReturns(w) /\ IsSet(source_folder) /\ fetch_skipped' = {}) =>
              LET new == {u \in mailbox : u > source_folder.high_water_mark}
                  old == {u \in mailbox : u < source_folder.low_water_mark}
                  N == Cardinality(new)
                  H == Cardinality(old)
                  n == Smaller(N, batch_size)
                  h == IF N < batch_size THEN Smaller(H, batch_size - N) ELSE 0
                  r == email_messages'[w]
              IN  /\ Len(r) = n + h
                  /\ \A i \in 1..Len(r) : i <= n => r[i] \in new
                  /\ SubSeq(r, n + 1, Len(r)) = SmallestAscending(old, h)]_vars

\* C10: in every regime fetch returns at most batch_size messages.
C10_AtMostLimit ==
    \A w \in Workers :
        pc[w] = "fetched" => Len(email_messages[w]) <= batch_size

\* the step in which the message loop of process_chunk ends for worker w (a
\* run that is stopped in the loop does not end it)
LoopEnds(w) == pc[w] = "process_chunk" /\ pc'[w] \notin {"process_chunk", "failed"}

\* the step in which process_chunk raises out of its transaction for worker w
ChunkRaises(w) == pc[w] \in TxStatements /\ chunk_result'[w] \in ChunkFailures

\* the UIDs of a list of invoices
InvoiceUids(invs) == {invs[i].uid : i \in 1..Len(invs)}

\* C11: a chunk in which an attachment upload failed for a message does not
\* go on to its transaction and does not commit: process_chunk raises.
C11_UploadFailureAbortsChunk ==
    \A w \in Workers :
        upload_failed[w] =>
            /\ pc[w] \notin TxStatements
            /\ chunk_result[w] # "ok"

\* C12: at the end of the message loop every message of the chunk has been
\* attempted; a message that failed is in errors and has no invoice, an
\* invoice message that did not fail has its invoice, a message the engine
\* does not take for an invoice has none, and the chunk goes on to its
\* transaction, whose commit counts one error per failed message and covers
\* the whole chunk.
C12_MessageFailureSkipped ==
    [][\A w \in Workers :
          /\ LoopEnds(w) =>
                LET es == emails(w)
                    invs == InvoiceUids(invoices_to_insert'[w])
                IN  /\ pc'[w] = "tx_insert"
                    /\ errors'[w] \subseteq Range(es)
                    /\ invs \subseteq Range(es)
                    /\ \A i \in 1..Len(es) :
                          /\ es[i] \in errors'[w] => es[i] \notin invs
                          /\ (es[i] \notin errors'[w]
                                 /\ engine(es[i]).kind = "invoice")
                                => es[i] \in invs
                          /\ engine(es[i]).kind # "invoice" => es[i] \notin invs
          /\ ChunkCommits(w) =>
                /\ total_errors'[w] = total_errors[w] + Cardinality(errors[w])
                /\ Range(emails(w)) \subseteq committed_uids']_vars

\* a committed chunk in which a message failed in parse, classify or extract
\* and a later message became an invoice
C12_Witness ==
    \E w \in Workers :
        /\ chunk_result[w] = "ok"
        /\ ~upload_failed[w]
        /\ \E i, j \in 1..Len(emails(w)) :
              /\ i < j
              /\ emails(w)[i] \in errors[w]
              /\ emails(w)[j] \in InvoiceUids(invoices_to_insert[w])

\* C13: when process_chunk raises for a chunk, the worker adds the chunk's
\* message count to total_errors, the stored rows are those of the chunk's
\* start, and the worker goes on to the next chunk of the batch if there is
\* one; the stored tracking record changes only in a commit, and a chunk
\* reads in its transaction the record as the last commit left it.
C13_FailedChunkSkipped ==
    [][\A w \in Workers :
          /\ ChunkRaises(w) =>
                /\ total_errors'[w] = total_errors[w] + Len(emails(w))
                /\ invoice' = chunk_start[w].committed.invoice
                /\ source_folder' = chunk_start[w].committed.source_folder
                /\ committed_uids' = committed_uids
                /\ chunks_processed'[w] = chunks_processed[w]
                /\ IF chunk_num[w] < num_chunks(email_messages[w], chunk_size)
                   THEN /\ pc'[w] = "process_chunk"
                        /\ chunk_num'[w] = chunk_num[w] + 1
                        /\ email_messages'[w] = email_messages[w]
                   ELSE pc'[w] = "return"
          /\ (pc[w] = "tx_get_folder" /\ pc'[w] = "tx_update") =>
                tx_folder'[w] = source_folder
          /\ source_folder' # source_folder => \E v \in Workers : ChunkCommits(v)]_vars

\* a chunk of a run committed after an earlier chunk of the same run raised,
\* and the run's error total holds the failed chunk's messages
C13_Witness ==
    \E w \in Workers :
        /\ chunk_result[w] = "ok"
        /\ chunk_num[w] >= 2
        /\ failed_uids # {}
        /\ total_errors[w] >= Cardinality(failed_uids)
        /\ failed_uids \cap committed_uids = {}

\* C14: a fetch in which the FETCH of some message failed returns every
\* other selected message, in order, and does not raise.
C14_FetchFailureSkipsOne ==
    [][(runs' = runs + 1 /\ fetch_skipped' # {}) =>
          \E w \in Workers :
              /\ pc[w] # "fetched" /\ pc'[w] = "fetched"
              /\ email_messages'[w] =
                    SelectSeq(uids_to_fetch(mailbox, source_folder.high_water_mark,
                                            source_folder.low_water_mark, batch_size),
                              LAMBDA u : u \notin fetch_skipped')]_vars

\* C18: the stored invoices hold at most one row per invoice_number (an
\* invoice without a number has none), and no step removes or changes a
\* stored row.
C18_OneRowPerInvoiceNumber ==
    [][/\ \A r1, r2 \in invoice' :
            (r1.invoice_number # NULL /\ r1.invoice_number = r2.invoice_number)
                => r1 = r2
       /\ \A r \in invoice : r \in invoice']_vars

\* a committed chunk that held two invoices with the same invoice_number, one
\* of a message whose invoice an earlier chunk had stored (a rerun) and one of
\* another message
C18_Witness ==
    \E w \in Workers :
        /\ chunk_result[w] = "ok"
        /\ \E i, j \in 1..Len(invoices_to_insert[w]) :
              LET a == invoices_to_insert[w][i]
                  b == invoices_to_insert[w][j]
              IN  /\ i # j
                  /\ a.invoice_number # NULL
                  /\ a.invoice_number = b.invoice_number
                  /\ \E r \in chunk_start[w].committed.invoice : r.uid = a.uid
                  /\ \A r \in invoice : r.uid # b.uid

\* the reconcile_folders call of run s has gone through its folder_infos and
\* returns reconciled_ids next
AboutToReturn(s) == spc[s] = "lookup" /\ info_i[s] > Len(folder_infos[s])

NoIdTwice(ids) == \A i, j \in 1..Len(ids) : ids[i] = ids[j] => i = j

\* C15: a reconcile_folders call that lists the same folders as the call
\* of the same source that returned before it began returns the same ids as
\* that call, returns no id twice and creates no record.
C15_ReconcileIdempotent ==
    \A s \in Schedulers :
        (AboutToReturn(s) /\ prior[s].made
                          /\ prior[s].folder_infos = folder_infos[s])
            => /\ reconciled_ids[s] = prior[s].folder_ids
               /\ NoIdTwice(reconciled_ids[s])
               /\ created[s] = {}

\* the records of the folder of folder_info under another uid_validity
OldRecords(rows, src, folder_info) ==
    {r \in rows : /\ r.source_id = src
                  /\ r.folder_name = folder_info.name
                  /\ r.uid_validity # folder_info.uid_validity}

Last(ids) == ids[Len(ids)]

\* C16: when reconcile_folders finds no record of a folder under the listed
\* uid_validity while the folder has a record under another one, it adds a
\* record of the listed (source, folder, uid_validity) with null watermarks
\* and a new id, returns that id, and leaves every stored record as it was;
\* an id it returns for a folder is never the id of a record under another
\* uid_validity.
C16_NewEpochNewRecord ==
    [][\A s \in Schedulers :
          (spc[s] \in {"lookup", "create"} /\ info_i'[s] = info_i[s] + 1) =>
              LET src == sources[source_i[s]]
                  folder_info == folder_infos[s][info_i[s]]
                  old == OldRecords(source_folder_rows, src, folder_info)
              IN  /\ \A o \in old : Last(reconciled_ids'[s]) # o.id
                  /\ (spc[s] = "create" /\ old # {}) =>
                        \E r \in source_folder_rows' :
                            /\ source_folder_rows' = source_folder_rows \cup {r}
                            /\ \A o \in source_folder_rows : r.id # o.id
                            /\ r.source_id = src
                            /\ r.folder_name = folder_info.name
                            /\ r.uid_validity = folder_info.uid_validity
                            /\ r.high_water_mark = NULL
                            /\ r.low_water_mark = NULL
                            /\ reconciled_ids'[s] =
                                  Append(reconciled_ids[s], r.id)]_vars

\* a call has just created the record of a folder whose record under an
\* earlier uid_validity holds watermarks, and has taken the new record's id
C16_Witness ==
    \E s \in Schedulers : \E r, o \in source_folder_rows :
        /\ spc[s] = "lookup"
        /\ r.id \in created[s]
        /\ Len(reconciled_ids[s]) > 0 /\ Last(reconciled_ids[s]) = r.id
        /\ o.source_id = r.source_id /\ o.folder_name = r.folder_name
        /\ o.uid_validity # r.uid_validity
        /\ o.high_water_mark # NULL /\ o.low_water_mark # NULL
        /\ r.high_water_mark = NULL /\ r.low_water_mark = NULL

\* C17: the source_folder table holds at most one record for each
\* (source_id, folder_name, uid_validity), whatever the interleaving of the
\* reconcile_folders calls of scheduler runs that overlap.
C17_OneRecordPerTriple ==
    \A r1, r2 \in source_folder_rows :
        (/\ r1.source_id = r2.source_id
         /\ r1.folder_name = r2.folder_name
         /\ r1.uid_validity = r2.uid_validity) => r1 = r2

\* C19: the workers a run has spawned are one for each id its reconciliation
\* returned: every returned id has exactly one worker, and no worker has
\* another id.
C19_OneWorkerPerRecord ==
    \A s \in Schedulers :
        spc[s] = "await" =>
            /\ Range(worker_calls[s]) \subseteq Range(all_folder_ids[s])
            /\ \A id \in Range(all_folder_ids[s]) :
                  Cardinality({i \in 1..Len(worker_calls[s]) :
                                  worker_calls[s][i] = id}) = 1

\* C20: no scheduler run ends by an exception that reaches its caller.
C20_SchedulerNeverRaises ==
    \A s \in Schedulers : spc[s] # "raised"

\* ---------------------------------------------------------------- C28
\* process_source_folder is at an exit: at its return statement (the early
\* return included) or past the re-raise of its handler
AtExit(w) == pc[w] \in {"return", "failed"}

\* C28: on every exit path of process_source_folder after the mailbox
\* connection was opened (the normal completion, the early return when no
\* message was fetched, the failure) the worker's connection has been closed.
C28_ConnectionClosedAtExit ==
    \A w \in Workers : AtExit(w) => ~imap[w]

\* ---------------------------------------------------------------- C26
Watermarks(f) == <<f.high_water_mark, f.low_water_mark>>

\* the records of the table whose watermarks the step changes
Moved == {r \in source_folder_rows :
             \E q \in source_folder_rows' : /\ q.id = r.id
                                            /\ Watermarks(q) # Watermarks(r)}

\* C26: the watermarks of a tracking record change only in a committed
\* process_chunk transaction: the fetch, a failed chunk and a worker run that
\* fetches no message leave high_water_mark and low_water_mark unchanged, and
\* so does every step of reconcile_folders on the records of the table, whose
\* watermarks only the workers a run awaits move.
C26_WatermarksChangeOnlyAtCommit ==
    [][/\ Watermarks(source_folder') # Watermarks(source_folder)
            => \E w \in Workers : /\ pc[w] = "tx_commit"
                                  /\ chunk_result'[w] = "ok"
       /\ Moved # {} => \E s \in Schedulers : spc[s] = "await"]_vars

\* a run that fetched nothing is at its return, after a commit had set the
\* watermarks
C26_Witness ==
    /\ source_folder.high_water_mark # NULL
    /\ \E w \in Workers : /\ pc[w] = "return"
                          /\ email_messages[w] = <<>>

\* ---------------------------------------------------------------- C27
\* the step in which the run of worker w ends without a result after its
\* fetch: it is stopped, or it fails after the chunk loop
RunFails(w) == ~Resting(w) /\ pc'[w] = "failed"

\* C27: a worker that is stopped or fails after it committed chunks of its
\* batch leaves the invoices and the watermarks of those chunks stored: the
\* failure of a later chunk and the end of the run change no committed row,
\* and no step removes a committed invoice.
C27_CommittedChunksStay ==
    [][/\ invoice \subseteq invoice'
       /\ \A w \in Workers :
             (ChunkRaises(w) \/ RunFails(w)) =>
                 /\ invoice' = invoice
                 /\ source_folder' = source_folder]_vars

\* the first run has ended without a result and left invoices and watermarks
C27_Witness ==
    /\ runs = 1
    /\ \E w \in Workers : pc[w] = "failed"
    /\ invoice # {}
    /\ source_folder.high_water_mark # NULL

\* ---------------------------------------------------------------- C29
\* C29: every reference in the attached_files of a committed invoice names a
\* key that is in the bucket: an invoice is committed only if the existence
\* check or the upload went through for each of its attachments.
C29_AttachmentsStored ==
    \A r \in invoice_rows : Range(r.attached_files) \subseteq bucket

\* a call has committed an invoice with an attachment while another message
\* of the chunk failed at an attachment that is not in the bucket
C29_Witness ==
    /\ lpc = "returned"
    /\ \E r \in invoice_rows : r.attached_files # <<>>
    /\ \E u \in failed : \E n \in 1..mail[u].attachments :
          generate_key(u, n) \notin bucket

\* ---------------------------------------------------------------- C30
\* C30: running process_chunk again over messages that were attempted before
\* stores no second invoice row for a message whose invoice row is stored,
\* whatever invoice_number the extraction gave, a null one included.
C30_RerunStoresNoSecondRow ==
    [][\A r \in invoice_rows' \ invoice_rows :
          \A q \in invoice_rows : q.uid # r.uid]_vars


\* the source and the columns the latest refresh_source_token call of the
\* run was given
Called(s) == refresh_i[s] > 0
CalledWith(s) == stored[sources[refresh_i[s]]]

\* C23: refresh_source_token returns the stored access token without an
\* exchange exactly when the stored expiry is set and strictly later than the
\* current time; with no expiry, or one equal to now or in the past, it does
\* the exchange and returns the new token, or None when the exchange fails
C23_StoredTokenOnlyBeforeExpiry ==
    \A s \in Schedulers : Called(s) =>
        LET expires_at == CalledWith(s).oauth2_access_token_expires_at
        IN  /\ ~exchanged[s] <=> (expires_at # NULL /\ expires_at > clock)
            /\ ~exchanged[s] => token[s] = CalledWith(s).oauth2_access_token
            /\ exchanged[s] => token[s] \in {"new", NoToken}

\* a call at the very time of the expiry, which exchanged for the new token
C23_Witness ==
    \E s \in Schedulers :
        /\ Called(s)
        /\ CalledWith(s).oauth2_access_token_expires_at = clock
        /\ CalledWith(s).oauth2_access_token = "stored"
        /\ exchanged[s]
        /\ token[s] = "new"

\* C24: a scheduler run never writes to the stored Source record: access
\* token, refresh token and expiry of every source stay as they were, also
\* when the token was refreshed
C24_SourceRecordNotWritten ==
    [][stored' = stored]_vars

\* a run that returned after it refreshed the token of a source whose row
\* still holds the old token and no expiry
C24_Witness ==
    \E s \in Schedulers : \E src \in source_tokens[s] :
        /\ spc[s] = "returned"
        /\ stored[src] = NoExpiry


\* ---------------------------------------------------------------- C25
\* C25: the stages of a run are strictly ordered over the whole source set:
\* every token check is over before the first reconcile_folders call, every
\* reconcile_folders call is over before the first worker is spawned, and
\* every worker is spawned before the first result is awaited
C25_StagesInOrder ==
    \A s \in Schedulers :
        /\ (reconciled[s] # {} \/ spc[s] \in {"lookup", "create"})
              => refresh_i[s] = Len(sources)
        /\ (spawn_i[s] > 0 \/ worker_calls[s] # <<>>)
              => /\ source_i[s] > Len(sources)
                 /\ spc[s] \notin {"refresh", "lookup", "create"}
        /\ results[s] # <<>> => spawn_i[s] = Len(all_folder_ids[s])

\* two sources were reconciled, at least two workers were spawned, and the
\* run has awaited some of them but not all
C25_Witness ==
    \E s \in Schedulers :
        /\ Cardinality(reconciled[s]) >= 2
        /\ Len(worker_calls[s]) >= 2
        /\ results[s] # <<>>
        /\ Len(results[s]) < Len(worker_calls[s])

\* ---------------------------------------------------------------- C21
\* the run is about to wait for its next worker
Awaiting(s) == spc[s] = "await" /\ Len(results[s]) < Len(worker_calls[s])
awaited(s) == worker_calls[s][Len(results[s]) + 1]

\* the rows of the other records stay, and the watermarks of the record of
\* the worker do not go back
NothingUndone(folder_id) ==
    \A r \in source_folder_rows :
        IF r.id # folder_id THEN r \in source_folder_rows'
        ELSE r.high_water_mark # NULL =>
                \E q \in source_folder_rows' :
                    /\ q.id = r.id
                    /\ q.high_water_mark >= r.high_water_mark
                    /\ q.low_water_mark <= r.low_water_mark

\* C21: a worker that raises gives one result entry with the id of its
\* folder and an error; the run goes on to the other spawned workers and
\* collects one result for each of them, and what the workers committed is
\* not undone
C21_WorkerFailureIsRecorded ==
    [][\A s \in Schedulers :
          /\ Awaiting(s) =>
                /\ results'[s] \in {Append(results[s], collect(awaited(s), result)) :
                                       result \in WorkerResults}
                /\ spc'[s] = "await"
                /\ worker_calls'[s] = worker_calls[s]
                /\ NothingUndone(awaited(s))
          /\ (spc[s] = "await" /\ spc'[s] = "returned") =>
                /\ Len(results[s]) = Len(worker_calls[s])
                /\ \A i \in 1..Len(results[s]) :
                      results[s][i].source_folder_id = worker_calls[s][i]
                /\ summary'[s].workers_completed = Len(worker_calls[s])]_vars

\* a run returned with the error entry of a worker that had committed, and
\* after it the result of a worker of another record that committed too
C21_Witness ==
    \E s \in Schedulers :
        /\ spc[s] = "returned"
        /\ \E i \in 1..(Len(results[s]) - 1) :
              /\ results[s][i].error
              /\ ~results[s][i + 1].error
              /\ results[s][i].source_folder_id # results[s][i + 1].source_folder_id
              /\ \A r \in source_folder_rows :
                    r.id \in {results[s][i].source_folder_id,
                              results[s][i + 1].source_folder_id}
                       => r.high_water_mark # NULL

\* ---------------------------------------------------------------- C22
\* the sources for which refresh_source_token gave the run no token
Excluded(s) == {sources[k] : k \in 1..refresh_i[s]} \ source_tokens[s]

\* the sources of the records the ids name
SourcesOf(ids) ==
    {r.source_id : r \in {q \in source_folder_rows : q.id \in Range(ids)}}

\* C22: a source whose token refresh failed gets no reconcile_folders call
\* and no worker in the run, and every source with a token gets its
\* reconcile_folders call and a worker for every id it returned
C22_RefreshFailureExcludesSource ==
    \A s \in Schedulers :
        /\ \A src \in Excluded(s) :
              /\ src \notin reconciled[s]
              /\ ~(spc[s] \in {"lookup", "create"} /\ sources[source_i[s]] = src)
              /\ src \notin SourcesOf(all_folder_ids[s])
              /\ src \notin SourcesOf(worker_calls[s])
        /\ spc[s] \in {"await", "returned"} =>
              /\ source_tokens[s] \subseteq reconciled[s]
              /\ Range(all_folder_ids[s]) \subseteq Range(worker_calls[s])

\* a run returned: the first source, which has a record from an earlier run,
\* got no token, and the second source was reconciled and has a worker
C22_Witness ==
    \E s \in Schedulers :
        /\ spc[s] = "returned"
        /\ Len(sources) >= 2
        /\ sources[1] \in Excluded(s)
        /\ \E r \in source_folder_rows : r.source_id = sources[1]
        /\ sources[2] \in reconciled[s]
        /\ sources[2] \in SourcesOf(worker_calls[s])


\* ---------------------------------------------------------------- C31
\* the worker is in its chunk loop
InChunkLoop(w) == pc[w] = "process_chunk" \/ pc[w] \in TxStatements

\* the step in which chunk chunk_num[w] of worker w ends, by its commit or by
\* an exception of its transaction
ChunkEnds(w) == ChunkCommits(w) \/ ChunkRaises(w)

\* the UIDs at the positions of the k-th chunk in the fetched list
ListedInChunk(msgs, k, size) ==
    {msgs[i] : i \in {j \in 1..Len(msgs) : (k - 1) * size < j /\ j <= k * size}}

\* the list holds the UIDs below the low watermark after all others, ascending
HistoricalLast(msgs, f) ==
    \A i, j \in 1..Len(msgs) :
        (i < j /\ msgs[i] < f.low_water_mark) =>
            /\ msgs[j] < f.low_water_mark
            /\ msgs[i] < msgs[j]

\* C31: the fetch has returned its whole batch before the first chunk, and
\* the chunks are the consecutive slices of the fetched list (new arrivals
\* first, then the historical UIDs ascending), processed one at a time in the
\* order of the list: chunk k + 1 starts only in the step in which chunk k
\* commits or fails.
C31_ChunksInFetchOrder ==
    [][\A w \in Workers :
          /\ FetchReturns(w) /\ IsSet(folder'[w])
                => HistoricalLast(email_messages'[w], folder'[w])
          /\ pc'[w] = "process_chunk" /\ ~InChunkLoop(w)
                => /\ pc[w] = "fetched"
                   /\ chunk_num'[w] = 1
                   /\ email_messages'[w] = email_messages[w]
          /\ InChunkLoop(w) /\ pc'[w] # "failed"
                => /\ email_messages'[w] = email_messages[w]
                   /\ IF ChunkEnds(w)
                      THEN LET ids == ListedInChunk(email_messages[w], chunk_num[w],
                                                    chunk_size)
                           IN  /\ ids # {}
                               /\ ChunkCommits(w) =>
                                     committed_uids' = committed_uids \cup ids
                               /\ ChunkRaises(w) =>
                                     failed_uids' = failed_uids \cup ids
                               /\ \/ /\ pc'[w] = "process_chunk"
                                     /\ chunk_num'[w] = chunk_num[w] + 1
                                  \/ /\ pc'[w] = "return"
                                     /\ chunk_num[w] * chunk_size
                                           >= Len(email_messages[w])
                      ELSE /\ chunk_num'[w] = chunk_num[w]
                           /\ InChunkLoop(w)'
                           /\ committed_uids' = committed_uids
                           /\ failed_uids' = failed_uids]_vars

\* a run that fetched a new arrival followed by a historical UID is at its
\* second chunk after the first one committed
C31_Witness ==
    \E w \in Workers :
        /\ pc[w] = "process_chunk"
        /\ chunk_num[w] = 2
        /\ chunk_result[w] = "ok"
        /\ IsSet(folder[w])
        /\ email_messages[w][1] > folder[w].high_water_mark
        /\ email_messages[w][2] < folder[w].low_water_mark


\* ---------------------------------------------------------------- C32
\* the step in which worker w calls gmail.fetch, which returns or raises
FetchCalled(w) == Resting(w) /\ pc'[w] # pc[w] /\ runs' = runs + 1

\* C32: with low_water_mark equal to 1 the historical search of fetch yields
\* no UID and raises no error: the fetch returns (no FETCH failed), and it
\* returns only UIDs above high_water_mark.
C32_LowAtOneYieldsNothing ==
    [][\A w \in Workers :
          (/\ FetchCalled(w)
           /\ source_folder.low_water_mark = 1
           /\ fetch_skipped' = {}) =>
              /\ pc'[w] = "fetched"
              /\ \A u \in Range(email_messages'[w]) :
                    u > source_folder.high_water_mark]_vars


\* ---------------------------------------------------------------- C33
\* the run is in its reconcile loop, at a source or inside reconcile_folders
Reconciling(s) ==
    \/ spc[s] = "reconcile" /\ source_i[s] <= Len(sources)
    \/ spc[s] \in {"lookup", "create"}

\* the reconcile_folders call of the run for the source has ended without a
\* result: the listing or a database call failed
CallFailed(s, src) ==
    /\ src \in reconciled[s]
    /\ ~last_call[src].made
    /\ ~(spc[s] \in {"lookup", "create"} /\ sources[source_i[s]] = src)

\* the record with the id holds the source, the name and the UIDVALIDITY
RecordOf(id, src, folder_info) ==
    \E r \in source_folder_rows :
        /\ r.id = id
        /\ r.source_id = src
        /\ r.folder_name = folder_info.name
        /\ r.uid_validity = folder_info.uid_validity

\* C33: a folder whose STATUS fails is left out of the result of
\* reconcile_folders while every other listed folder is reconciled; a failure
\* of the listing or of the reconciliation of a source gives no id for that
\* source and does not stop the run: the other sources are reconciled and
\* their workers dispatched.
C33_RemoteFailuresAreScoped ==
    [][\A s \in Schedulers :
          /\ Reconciling(s) => (Reconciling(s)' \/ (spc'[s] = "reconcile"))
          /\ (AboutToReturn(s) /\ spc'[s] = "reconcile") =>
                LET src == sources[source_i[s]]
                    ids == reconciled_ids[s]
                IN  /\ Len(ids) = Len(folder_infos[s])
                    /\ \A i \in 1..Len(ids) : RecordOf(ids[i], src, folder_infos[s][i])
                    /\ all_folder_ids'[s] = all_folder_ids[s] \o ids
                    /\ \A n \in Range(remote_folders[src]) :
                          (\A i \in 1..Len(ids) : folder_infos[s][i].name # n) =>
                              ~\E r \in source_folder_rows : r.id \in created[s]
                                                             /\ r.folder_name = n
          /\ spc[s] \in {"await", "returned"} =>
                \A src \in source_tokens[s] :
                    /\ src \in reconciled[s]
                    /\ CallFailed(s, src) => src \notin SourcesOf(all_folder_ids[s])
                    /\ last_call[src].made =>
                          Range(last_call[src].folder_ids)
                             \subseteq Range(worker_calls[s])]_vars

\* a returned run: the reconcile_folders call of the first source failed
\* after it had created a record, the second source listed two folders of
\* which one STATUS failed, and the other folder has its worker
C33_Witness ==
    \E s \in Schedulers :
        /\ spc[s] = "returned"
        /\ Len(sources) >= 2
        /\ CallFailed(s, sources[1])
        /\ \E r \in source_folder_rows :
              r.source_id = sources[1] /\ r.high_water_mark = NULL
        /\ last_call[sources[2]].made
        /\ Len(remote_folders[sources[2]]) = 2
        /\ Len(last_call[sources[2]].folder_infos) = 1
        /\ Range(last_call[sources[2]].folder_ids) \subseteq Range(worker_calls[s])
        /\ worker_calls[s] # <<>>

\* the worker is the only one that was called with its row
OwnRow(w) == \A v \in Workers \ {w} : folder_of[v] # folder_of[w]

\* the watermarks of a row that held those of before after chunks of the
\* given UIDs were committed on it one after the other
MarksAfter(before, uids) ==
    IF uids = {} THEN <<before.high_water_mark, before.low_water_mark>>
    ELSE <<new_high(before, uids), new_low(before, uids)>>

\* C34: workers on different rows do not interfere.  The watermarks of a row
\* that one worker runs on are at every moment those of the row before the
\* workers started, widened by the UIDs of the chunks that this worker has
\* committed, whatever the steps of the other workers in between; a row that
\* no worker runs on keeps its watermarks; and when the worker has committed
\* all its chunks the row holds the watermarks of the whole batch that a
\* fetch on the row as it was before returns.
C34_RowsDoNotInterfere ==
    /\ \A w \in Workers :
          OwnRow(w) =>
             LET id == folder_of[w]
                 batch == fetch(mailbox, rows_before[id].high_water_mark,
                                rows_before[id].low_water_mark, batch_size, {})
             IN  /\ <<folder_rows[id].high_water_mark,
                      folder_rows[id].low_water_mark>>
                       = MarksAfter(rows_before[id], processed[w])
                 /\ fpc[w] = "done" /\ processed[w] = Range(messages[w])
                       => <<folder_rows[id].high_water_mark,
                            folder_rows[id].low_water_mark>>
                             = MarksAfter(rows_before[id], Range(batch))
    /\ \A id \in FolderIds :
          (\A w \in Workers : folder_of[w] # id) => folder_rows[id] = rows_before[id]

\* two workers on two rows have both returned after two chunks each, and
\* both rows changed, to different watermarks
C34_Witness ==
    /\ \A w \in Workers : fpc[w] = "done" /\ OwnRow(w) /\ chunk_i[w] = 2
    /\ \A w \in Workers : processed[w] = Range(messages[w])
    /\ \A id \in FolderIds : folder_rows[id] # rows_before[id]
    /\ \E id1, id2 \in FolderIds : folder_rows[id1] # folder_rows[id2]

\* C35: the stored watermarks of a row never narrow, also when several
\* workers run on the row at a time: across every step the high_water_mark
\* of a processed row does not decrease and its low_water_mark does not
\* increase.
C35_CommitsNeverNarrow ==
    [][\A id \in FolderIds :
          IsSet(folder_rows[id]) =>
             /\ IsSet(folder_rows'[id])
             /\ folder_rows'[id].high_water_mark >= folder_rows[id].high_water_mark
             /\ folder_rows'[id].low_water_mark <= folder_rows[id].low_water_mark]_vars

\* the UIDs that were in a committed chunk of a worker of the row
AttemptedOn(id) == UNION {processed[w] : w \in {v \in Workers : folder_of[v] = id}}

\* C36: in runs that follow one another on a row and in which nothing
\* fails (no search is rejected, no FETCH fails), the committed watermark range of the row holds no unattempted
\* message: every UID of the folder from low_water_mark to high_water_mark
\* was in a chunk that committed.
C36_RangeHoldsNoUnattemptedId ==
    \A id \in FolderIds :
        (/\ IsSet(folder_rows[id])
         /\ \A w \in Workers : fpc[w] # "failed" /\ skipped[w] = {}) =>
            \A u \in mailbox :
                /\ folder_rows[id].low_water_mark <= u
                /\ u <= folder_rows[id].high_water_mark
                => u \in AttemptedOn(id)

\* the step in which the fetch of worker v returns its batch
BatchReturns(v) == fpc[v] = "idle" /\ fpc'[v] \in {"select", "done"}

\* C37: a message whose FETCH failed in the fetch of a run is returned by
\* the fetch of a later run.  When the fetch of a run returns (no FETCH
\* failed this time, and it returned fewer than batch_size messages, so
\* truncation dropped none), it returns every UID that the fetch of an
\* earlier run on the row skipped and that no chunk has contained since.
C37_SkippedIsFetchedLater ==
    [][\A v \in Workers :
          (/\ BatchReturns(v)
           /\ skipped'[v] = {}
           /\ Len(messages'[v]) < batch_size) =>
              \A w \in Workers \ {v} :
                  folder_of[w] = folder_of[v] /\ fpc[w] = "done" =>
                      (skipped[w] \ AttemptedOn(folder_of[v]))
                          \subseteq Range(messages'[v])]_vars

\* the watermarks of a row: both None, or both set with low <= high
WellFormed(f) ==
    \/ f.high_water_mark = NULL /\ f.low_water_mark = NULL
    \/ /\ f.high_water_mark # NULL
       /\ f.low_water_mark # NULL
       /\ f.low_water_mark <= f.high_water_mark

\* C38: in every reachable state the watermarks of the tracking record are
\* both None or both set, and when set low_water_mark <= high_water_mark;
\* so are those a transaction has written and not yet committed.
C38_WatermarksWellFormed ==
    /\ WellFormed(source_folder)
    /\ \A w \in Workers : txn[w].updated => WellFormed(txn[w].folder)

\* a second run has committed its last chunk, after mail arrived or something
\* failed, and the record holds two different watermarks
C38_Witness ==
    /\ runs = 2
    /\ disturbed
    /\ \E w \in Workers : chunk_result[w] = "ok" /\ pc[w] = "return"
    /\ IsSet(source_folder)
    /\ source_folder.low_water_mark < source_folder.high_water_mark

\* the step in which process_source_folder returns its result
WorkerReturns(w) == pc[w] = "return" /\ pc'[w] = "done"

\* C39: every fetched message is counted once.  The metrics a chunk returns
\* satisfy emails_fetched = invoices_found + non_invoices + len(errors); a
\* chunk that fails adds its full size to the worker's errors and nothing to
\* the other totals; and the result a worker returns satisfies
\* emails_fetched = invoices_found + non_invoices + errors.
C39_EveryMessageCountedOnce ==
    [][\A w \in Workers :
          /\ ChunkCommits(w) =>
                Len(emails(w)) = Len(invoices_to_insert[w]) + non_invoices[w]
                                    + Cardinality(errors[w])
          /\ ChunkRaises(w) =>
                /\ total_errors'[w] = total_errors[w] + Len(emails(w))
                /\ total_invoices'[w] = total_invoices[w]
                /\ total_non_invoices'[w] = total_non_invoices[w]
          /\ WorkerReturns(w) =>
                Len(email_messages[w]) = total_invoices[w] + total_non_invoices[w]
                                            + total_errors[w]]_vars

\* a worker is about to return after a chunk that committed an invoice and
\* a message that is no invoice, and a chunk that failed
C39_Witness ==
    \E w \in Workers :
        /\ pc[w] = "return"
        /\ chunk_num[w] = 2
        /\ chunks_processed[w] = 1
        /\ total_invoices[w] = 1
        /\ total_non_invoices[w] = 1
        /\ total_errors[w] = 1
        /\ failed_uids # {}

====
